---- MODULE Spec2Model ----
(***************************************************************************)
(* Windowed result materializer of sqlitelite:                             *)
(*   sqlite-android/src/main/jni/sqlite/SQLiteNative.cpp                   *)
(*     copyRow, nativeExecuteForCursorWindow                               *)
(* (android_database_SQLiteConnection.cpp holds a line-for-line copy).     *)
(*                                                                         *)
(* One call of nativeExecuteForCursorWindow is modelled as a sequence of   *)
(* steps: Begin (clear + setNumColumns + local initialisation), one action *)
(* per outcome of sqlite3_step inside the while loop, and Finish           *)
(* (sqlite3_reset + packing of the result).  The statement is an opaque    *)
(* stepping cursor over the finite row sequence rows.  CursorWindow is not *)
(* part of the sources at hand; it is modelled from its description as a   *)
(* fixed-capacity region with a row index and packed payloads.             *)
(***************************************************************************)
EXTENDS Integers, Sequences, FiniteSets, TLC

(***************************************************************************)
(* Bounds of the model.                                                    *)
(***************************************************************************)
MaxRows == 3            \* longest result, lock-free inputs
MaxLockedRows == 2      \* longest result, inputs under lock contention
MaxWindow == 8          \* largest window capacity (space units)
NumColumns == 2         \* sqlite3_column_count of the statement
MaxCalls == 2           \* calls made in a row on one statement and window
IntBits == 4            \* bits of a jint; a jlong has twice as many
MaxPrimary == 28        \* largest primary error code tried, the codes 100 and 101 apart
MaxExtension == 35      \* largest extension number of an error code tried

(***************************************************************************)
(* Program constants.                                                      *)
(***************************************************************************)
RETRY_LIMIT == 50       \* the retry ceiling

CPR_OK == "CPR_OK"
CPR_FULL == "CPR_FULL"
CPR_ERROR == "CPR_ERROR"

SQLITE_INTEGER == "SQLITE_INTEGER"
SQLITE_FLOAT == "SQLITE_FLOAT"
SQLITE_TEXT == "SQLITE_TEXT"
SQLITE_BLOB == "SQLITE_BLOB"
SQLITE_NULL == "SQLITE_NULL"
UnknownType == "UNKNOWN"     \* any type tag outside the five above

OK == "OK"
NO_MEMORY == "NO_MEMORY"
BAD_VALUE == "BAD_VALUE"
INVALID_OPERATION == "INVALID_OPERATION"

(***************************************************************************)
(* Column values of the cursor: a type tag and a value.  Text and Blob     *)
(* values are byte sequences, Integer and Float values are numbers.        *)
(***************************************************************************)
Col(t, v) == [type |-> t, val |-> v]

Bytes(n) == [i \in 1..n |-> i]

IntCol == Col(SQLITE_INTEGER, 7)
FloatCol == Col(SQLITE_FLOAT, 3)
NullCol == Col(SQLITE_NULL, 0)
TextCol(n) == Col(SQLITE_TEXT, Bytes(n))
BlobCol(n) == Col(SQLITE_BLOB, Bytes(n))
BadCol == Col(UnknownType, 0)

\* A row of NumColumns columns: first column, padding, last column.
MkRow(first, last) ==
    [i \in 1..NumColumns |->
        IF i = 1 THEN first ELSE IF i = NumColumns THEN last ELSE NullCol]

RowSmall == MkRow(IntCol, NullCol)
RowText == MkRow(TextCol(2), FloatCol)
RowBlob == MkRow(BlobCol(4), TextCol(0))
RowHuge == MkRow(BlobCol(MaxWindow), IntCol)
RowBad == MkRow(IntCol, BadCol)
RowBlobBad == MkRow(BlobCol(4), BadCol)

RowKinds == {RowSmall, RowText, RowBlob, RowHuge, RowBad, RowBlobBad}
LockedRowKinds == {RowSmall, RowBlob}

WindowSizes == {MaxWindow - 3, MaxWindow}

SeqsUpTo(S, n) == UNION {[1..k -> S] : k \in 0..n}

(***************************************************************************)
(* CursorWindow.                                                           *)
(*   size        capacity in space units                                   *)
(*   used        space units allocated so far                              *)
(*   numColumns  declared column count                                     *)
(*   rows        row index: per row its field directory, one slot per      *)
(*               column; a slot holds the type tag and value written and   *)
(*               (for the checks only) the absolute index src of the       *)
(*               cursor row the value came from                            *)
(***************************************************************************)
EmptySlot == [type |-> SQLITE_NULL, val |-> 0, src |-> -1]

StaleRow == [i \in 1..NumColumns |-> [type |-> SQLITE_INTEGER, val |-> 99, src |-> -2]]

NumRows(w) == Len(w.rows)

\* one field slot of the directory takes one space unit
FieldDirSize(numColumns) == numColumns

WindowClear(w) == [w EXCEPT !.rows = <<>>, !.used = 0, !.numColumns = 0]

WindowSetNumColumns(w, n) == [w EXCEPT !.numColumns = n]

\* allocRow: reserve the field directory of a new last row
AllocRow(w) ==
    IF w.used + FieldDirSize(w.numColumns) > w.size
    THEN [status |-> NO_MEMORY, window |-> w]
    ELSE [status |-> OK,
          window |-> [w EXCEPT
              !.rows = Append(w.rows, [i \in 1..w.numColumns |-> EmptySlot]),
              !.used = w.used + FieldDirSize(w.numColumns)]]

\* freeLastRow: drop the last row of the index; its space is not reclaimed
FreeLastRow(w) ==
    IF NumRows(w) > 0
    THEN [w EXCEPT !.rows = SubSeq(w.rows, 1, NumRows(w) - 1)]
    ELSE w

\* common part of the put operations: payload bytes for slot (row, column)
PutSlot(w, row, column, payload, slot) ==
    IF row + 1 > NumRows(w) \/ column > w.numColumns
    THEN [status |-> BAD_VALUE, window |-> w]
    ELSE IF w.used + payload > w.size
    THEN [status |-> NO_MEMORY, window |-> w]
    ELSE [status |-> OK,
          window |-> [w EXCEPT !.rows[row + 1][column] = slot,
                               !.used = w.used + payload]]

\* putString stores sizeIncludingNull bytes: the text and its terminator
PutString(w, row, column, text, sizeIncludingNull, src) ==
    PutSlot(w, row, column, sizeIncludingNull,
            [type |-> SQLITE_TEXT,
             val |-> SubSeq(Append(text, 0), 1, sizeIncludingNull), src |-> src])

PutBlob(w, row, column, blob, size, src) ==
    PutSlot(w, row, column, size,
            [type |-> SQLITE_BLOB, val |-> SubSeq(blob, 1, size), src |-> src])

\* Integer, Float and Null values live in the field slot itself
PutLong(w, row, column, value, src) ==
    PutSlot(w, row, column, 0, [type |-> SQLITE_INTEGER, val |-> value, src |-> src])

PutDouble(w, row, column, value, src) ==
    PutSlot(w, row, column, 0, [type |-> SQLITE_FLOAT, val |-> value, src |-> src])

PutNull(w, row, column, src) ==
    PutSlot(w, row, column, 0, [type |-> SQLITE_NULL, val |-> 0, src |-> src])

\* the read side of the window: the value of a field slot as the window's
\* getters return it; a text is returned without its terminator
GetFieldValue(slot) ==
    IF slot.type = SQLITE_TEXT
    THEN Col(SQLITE_TEXT, SubSeq(slot.val, 1, Len(slot.val) - 1))
    ELSE Col(slot.type, slot.val)

(***************************************************************************)
(* copyRow                                                                 *)
(***************************************************************************)
\* sqlite3_column_bytes
ColumnBytes(col) ==
    IF col.type \in {SQLITE_TEXT, SQLITE_BLOB} THEN Len(col.val) ELSE 0

\* variant that stores a text without its terminator
PackColumnNoTerminator(w, col, addedRows, i, src) ==
    IF col.type = SQLITE_TEXT
    THEN PutString(w, addedRows, i, col.val, ColumnBytes(col), src)
    ELSE IF col.type = SQLITE_INTEGER
    THEN PutLong(w, addedRows, i, col.val, src)
    ELSE IF col.type = SQLITE_FLOAT
    THEN PutDouble(w, addedRows, i, col.val, src)
    ELSE IF col.type = SQLITE_BLOB
    THEN PutBlob(w, addedRows, i, col.val, ColumnBytes(col), src)
    ELSE IF col.type = SQLITE_NULL
    THEN PutNull(w, addedRows, i, src)
    ELSE [status |-> "UNKNOWN_TYPE", window |-> w]

\* the body of "for (int i = 0; i < numColumns; i++)": one column
PackColumn(w, col, addedRows, i, src) ==
    IF col.type = SQLITE_TEXT
    THEN PutString(w, addedRows, i, col.val, ColumnBytes(col) + 1, src)
    ELSE IF col.type = SQLITE_INTEGER
    THEN PutLong(w, addedRows, i, col.val, src)
    ELSE IF col.type = SQLITE_FLOAT
    THEN PutDouble(w, addedRows, i, col.val, src)
    ELSE IF col.type = SQLITE_BLOB
    THEN PutBlob(w, addedRows, i, col.val, ColumnBytes(col), src)
    ELSE IF col.type = SQLITE_NULL
    THEN PutNull(w, addedRows, i, src)
    ELSE [status |-> "UNKNOWN_TYPE", window |-> w]

\* the column loop from column i on; stops at the first failure
RECURSIVE PackFrom(_, _, _, _, _, _)
PackFrom(w, row, numColumns, addedRows, i, src) ==
    IF i > numColumns
    THEN [result |-> CPR_OK, window |-> w, thrown |-> FALSE]
    ELSE LET p == PackColumn(w, row[i], addedRows, i, src) IN
         IF p.status = "UNKNOWN_TYPE"
         THEN [result |-> CPR_ERROR, window |-> w, thrown |-> TRUE]
         ELSE IF p.status # OK
         THEN [result |-> CPR_FULL, window |-> w, thrown |-> FALSE]
         ELSE PackFrom(p.window, row, numColumns, addedRows, i + 1, src)

\* variants that release the row only when the window was full, or only on an error
FreeOnlyWhenFull(result, w) ==
    IF result = CPR_FULL THEN FreeLastRow(w) ELSE w

FreeOnlyOnError(result, w) ==
    IF result = CPR_ERROR THEN FreeLastRow(w) ELSE w

\* "if (result != CPR_OK) window->freeLastRow()"
FreeOnFailure(result, w) ==
    IF result # CPR_OK THEN FreeLastRow(w) ELSE w

\* src is the absolute index of the cursor's current row (bookkeeping only)
CopyRow(w, row, numColumns, startPos_, addedRows_, src) ==
    LET a == AllocRow(w) IN
    IF a.status # OK
    THEN [result |-> CPR_FULL, window |-> w, thrown |-> FALSE]
    ELSE LET p == PackFrom(a.window, row, numColumns, addedRows_, 1, src) IN
         [result |-> p.result,
          window |-> FreeOnFailure(p.result, p.window),
          thrown |-> p.thrown]

(***************************************************************************)
(* State.                                                                  *)
(***************************************************************************)
VARIABLES
    \* the statement and its environment
    rows,           \* the result the statement yields, in order
    stmtPos,        \* number of rows the cursor has yielded since its reset
    stmtState,      \* "idle" (reset) or "stepping"
    contended,      \* another connection may hold locks during the call
    fault,          \* which window set-up operation fails: none/clear/setNumColumns
    \* arguments
    startPosArg, requiredPos, countAllRows,
    \* the window
    window,
    \* locals of nativeExecuteForCursorWindow
    pc,             \* "entry", "loop", "returned"
    startPos, numColumns,
    retryCount, totalRows, addedRows, windowFull, gotException,
    done,           \* the loop was left through "break"
    result,         \* <<windowStartRowIndex, totalRowsSeen>> as packed at return
    exception,      \* the pending error raised to the caller, "none" if none
    resetCalled,    \* sqlite3_reset was called by this call
    \* observation of the latest loop iteration
    lastOutcome,    \* outcome of the latest sqlite3_step
    streak,         \* consecutive Busy/Locked outcomes up to / just before it
    encodes,        \* copyRow calls made by the latest iteration
    restarted,      \* the latest iteration went through overflow recovery
    firstCpr,       \* result of its first copyRow call ("none" if none)
    lastCpr,        \* result of its last copyRow call ("none" if none)
    \* observation of the whole call and of the calls before it
    longStreakEnded,\* a row has followed RETRY_LIMIT - 1 or more Busy/Locked
    failedOps,      \* operations of this call that returned a failure status
    callNo,         \* 1 for the first call on the statement, 2 for the next...
    prev,           \* what the previous call returned and left in the window
    interrupted,    \* sqlite3_interrupt was called on the connection
    \* the connection and the statement the scalar helpers and the column
    \* getters work on
    connErrcode,    \* the connection's error code (sqlite3_extended_errcode)
    connRowid,      \* sqlite3_last_insert_rowid
    connChanges,    \* sqlite3_changes
    hRows,          \* the rows the statement yields
    hFailAt,        \* the step (counted from the reset) that fails, 0 if none
    hInsert,        \* the rowid the statement inserts when it completes, 0 if
                    \* it inserts nothing
    hStepNo,        \* sqlite3_step calls since the statement's last reset
    hOnRow,         \* the statement is positioned on a row
    \* the helper call
    hPc,            \* "idle", "returned"
    hName,          \* the native method called
    hArg,           \* its defaultValue or column index argument
    hResult,        \* the value it returned
    hThrown,        \* the message of the exception it raised, "none" if none
    hSteps,         \* sqlite3_step calls it made
    hReset,         \* it called sqlite3_reset (or sqlite3_finalize)
    hCalls,         \* helper calls made on the connection so far
    \* the nativeOpen call
    oImpl,          \* the source file whose nativeOpen is called
    oReadWrite,     \* openFlags has SQLITE_OPEN_READWRITE
    oOpenErr,       \* what sqlite3_open_v2 returns
    oCollationErr,  \* sqlite3_create_collation fails
    oReadOnly,      \* sqlite3_db_readonly: the database is read-only
    oTimeoutErr,    \* sqlite3_busy_timeout fails
    oHandle,        \* the engine's connection handle: "none", "open", "closed"
    oPc,            \* "idle", "returned"
    oResult,        \* the jlong returned: 0, or 1 for the connection pointer
    oThrown,        \* the message of the exception raised, "none" if none
    \* the throw_sqlite3_exception(env, errcode, sqlite3Message, message) call
    tErrcode,       \* errcode
    tClassFound,    \* env->FindClass finds the class chosen by the switch
    tPc,            \* "idle", "thrown"
    tClass,         \* the class of the exception thrown
    tInfo,          \* additionalInfo when the message is put together
    tMessage        \* the parts of the exception's message

vars == <<rows, stmtPos, stmtState, contended, fault,
          startPosArg, requiredPos, countAllRows, window,
          pc, startPos, numColumns, retryCount, totalRows, addedRows,
          windowFull, gotException, done, result, exception, resetCalled,
          lastOutcome, streak, encodes, restarted, firstCpr, lastCpr,
          longStreakEnded, failedOps, callNo, prev, interrupted,
          connErrcode, connRowid, connChanges, hRows, hFailAt, hInsert,
          hStepNo, hOnRow, hPc, hName, hArg, hResult, hThrown, hSteps, hReset,
          hCalls, oImpl, oReadWrite, oOpenErr, oCollationErr, oReadOnly,
          oTimeoutErr, oHandle, oPc, oResult, oThrown,
          tErrcode, tClassFound, tPc, tClass, tInfo, tMessage>>

\* the variables of the window materializer
cwvars == <<rows, stmtPos, stmtState, contended, fault,
            startPosArg, requiredPos, countAllRows, window,
            pc, startPos, numColumns, retryCount, totalRows, addedRows,
            windowFull, gotException, done, result, exception, resetCalled,
            lastOutcome, streak, encodes, restarted, firstCpr, lastCpr,
            longStreakEnded, failedOps, callNo, prev, interrupted>>

\* the variables of the scalar helpers and column getters
hvars == <<connErrcode, connRowid, connChanges, hRows, hFailAt, hInsert,
           hStepNo, hOnRow, hPc, hName, hArg, hResult, hThrown, hSteps, hReset,
           hCalls>>

\* the variables of nativeOpen
ovars == <<oImpl, oReadWrite, oOpenErr, oCollationErr, oReadOnly, oTimeoutErr,
           oHandle, oPc, oResult, oThrown>>

\* the variables of throw_sqlite3_exception
tvars == <<tErrcode, tClassFound, tPc, tClass, tInfo, tMessage>>

\* what only the transition to a following call changes
calls == <<callNo, prev>>

NoPrev == [result |-> <<-1, -1>>, rows |-> <<>>, used |-> -1, exception |-> "no call"]

\* the streak observation stops counting here; no call goes beyond it
StreakCap == RETRY_LIMIT + 2

inputs == <<rows, contended, fault, startPosArg, requiredPos, countAllRows>>

LockOutcomes == {"SQLITE_BUSY", "SQLITE_LOCKED"}

(***************************************************************************)
(* Initial states: a reset statement, a window left over from an earlier   *)
(* call, and the arguments of the call about to be made.                   *)
(***************************************************************************)
InitCommon ==
    /\ stmtPos = 0
    /\ stmtState = "idle"
    /\ countAllRows \in BOOLEAN
    /\ \E size \in WindowSizes :
           window = [size |-> size, used |-> FieldDirSize(NumColumns),
                     numColumns |-> NumColumns, rows |-> <<StaleRow>>]
    /\ pc = "entry"
    /\ startPos = startPosArg
    /\ numColumns = 0
    /\ retryCount = 0
    /\ totalRows = 0
    /\ addedRows = 0
    /\ windowFull = FALSE
    /\ gotException = FALSE
    /\ done = FALSE
    /\ result = <<0, 0>>
    /\ exception = "none"
    /\ resetCalled = FALSE
    /\ lastOutcome = "none"
    /\ streak = 0
    /\ encodes = 0
    /\ restarted = FALSE
    /\ firstCpr = "none"
    /\ lastCpr = "none"
    /\ longStreakEnded = FALSE
    /\ failedOps = {}
    /\ callNo = 1
    /\ prev = NoPrev
    /\ interrupted = FALSE

\* throw_sqlite3_exception is not called
ThrowIdle ==
    /\ tErrcode = 0
    /\ tClassFound = TRUE
    /\ tPc = "idle"
    /\ tClass = "none"
    /\ tInfo = ""
    /\ tMessage = <<>>

\* nativeOpen is not called
OpenIdle ==
    /\ oImpl = "none"
    /\ oReadWrite = FALSE
    /\ oOpenErr = "SQLITE_OK"
    /\ oCollationErr = FALSE
    /\ oReadOnly = FALSE
    /\ oTimeoutErr = FALSE
    /\ oHandle = "none"
    /\ oPc = "idle"
    /\ oResult = 0
    /\ oThrown = "none"

\* no helper is called: one statement without rows, never stepped
HelperIdle ==
    /\ OpenIdle
    /\ ThrowIdle
    /\ connErrcode = "SQLITE_OK"
    /\ connRowid = 0
    /\ connChanges = 0
    /\ hRows = <<>>
    /\ hFailAt = 0
    /\ hInsert = 0
    /\ hStepNo = 0
    /\ hOnRow = FALSE
    /\ hPc = "idle"
    /\ hName = "none"
    /\ hArg = 0
    /\ hResult = [kind |-> "none", num |-> 0, chars |-> <<>>]
    /\ hThrown = "none"
    /\ hSteps = 0
    /\ hReset = FALSE
    /\ hCalls = 0

\* no lock contention, no window fault: the full range of results
InitQuiet ==
    /\ rows \in SeqsUpTo(RowKinds, MaxRows)
    /\ startPosArg \in 0..MaxRows
    /\ requiredPos \in 0..MaxRows
    /\ contended = FALSE
    /\ fault = "none"
    /\ InitCommon
    /\ HelperIdle

\* lock contention or a failing window: a smaller range of results
InitContended ==
    /\ rows \in SeqsUpTo(LockedRowKinds, MaxLockedRows)
    /\ startPosArg \in 0..(MaxLockedRows - 1)
    /\ requiredPos \in 0..(MaxLockedRows - 1)
    /\ \/ contended = TRUE /\ fault = "none"
       \/ contended = FALSE /\ fault \in {"clear", "setNumColumns"}
    /\ InitCommon
    /\ HelperIdle

Init == InitQuiet \/ InitContended

(***************************************************************************)
(* nativeExecuteForCursorWindow                                            *)
(***************************************************************************)
\* variants of the loop condition with one conjunct lost
LoopCondStopWhenFull(gotException_, windowFull_, countAllRows_) ==
    ~gotException_ /\ ~windowFull_

LoopCondIgnoreFull(gotException_, windowFull_, countAllRows_) ==
    ~gotException_

LoopCondIgnoreError(gotException_, windowFull_, countAllRows_) ==
    ~windowFull_ \/ countAllRows_

\* "while (!gotException && (!windowFull || countAllRows))"
LoopCond(gotException_, windowFull_, countAllRows_) ==
    ~gotException_ /\ (~windowFull_ \/ countAllRows_)

\* variants of the skip test: without the full flag, without the start
\* position, and with ">" for ">="
SkipRowOnlyBeforeStart(startPos_, totalRows_, windowFull_) ==
    startPos_ >= totalRows_

SkipRowOnlyWhenFull(startPos_, totalRows_, windowFull_) ==
    windowFull_

SkipRowOffByOne(startPos_, totalRows_, windowFull_) ==
    startPos_ > totalRows_ \/ windowFull_

\* "if (startPos >= totalRows || windowFull) continue;"
SkipRow(startPos_, totalRows_, windowFull_) ==
    startPos_ >= totalRows_ \/ windowFull_

\* variants of the recovery condition: "<" for "<=", and no addedRows test
NeedRestartStrict(cpr, addedRows_, startPos_, requiredPos_) ==
    cpr = CPR_FULL /\ addedRows_ # 0 /\ startPos_ + addedRows_ < requiredPos_

NeedRestartEvenIfEmpty(cpr, addedRows_, startPos_, requiredPos_) ==
    cpr = CPR_FULL /\ startPos_ + addedRows_ <= requiredPos_

\* variant without the test against requiredPos
NeedRestartWheneverFull(cpr, addedRows_, startPos_, requiredPos_) ==
    cpr = CPR_FULL /\ addedRows_ # 0

\* "if (cpr == CPR_FULL && addedRows && startPos + addedRows <= requiredPos)"
NeedRestart(cpr, addedRows_, startPos_, requiredPos_) ==
    cpr = CPR_FULL /\ addedRows_ # 0 /\ startPos_ + addedRows_ <= requiredPos_

\* variants of the retry ceiling: ">=" for ">", and a lower ceiling
RetryExceededAtLimit(retryCount_) == retryCount_ >= RETRY_LIMIT

RetryExceededEarly(retryCount_) == retryCount_ > 5

\* "if (retryCount > 50)"
RetryExceeded(retryCount_) == retryCount_ > RETRY_LIMIT

\* variant of the recovery that forgets to clear the window
RestartWindowNoClear(w, numColumns_) == WindowSetNumColumns(w, numColumns_)

\* window->clear() and window->setNumColumns(numColumns) of the recovery;
\* their status is not looked at
RestartWindow(w, numColumns_) == WindowSetNumColumns(WindowClear(w), numColumns_)

\* the same two calls when one of them fails in the recovery: a failed clear
\* leaves the window as it is, a failed setNumColumns leaves it cleared
RestartWindowUnder(fault_, w, numColumns_) ==
    IF fault_ = "restartClear" THEN WindowSetNumColumns(w, numColumns_)
    ELSE IF fault_ = "restartSetNumColumns" THEN WindowClear(w)
    ELSE RestartWindow(w, numColumns_)

RestartFaults == {"restartClear", "restartSetNumColumns"}

\* variant of "retryCount = 0;" that keeps the counter
RetryKept(retryCount_) == retryCount_

\* "retryCount = 0;" on SQLITE_ROW
RetryAfterRow(retryCount_) == 0

\* variant of "retryCount++;" that does not count
NextRetryCountStuck(retryCount_) == retryCount_

\* "retryCount++;"
NextRetryCount(retryCount_) == retryCount_ + 1

\* the streak of Busy/Locked outcomes seen just before a non-lock outcome
StreakBefore == IF lastOutcome \in LockOutcomes THEN streak ELSE 0

\* variant of the set-up that forgets to clear the window
SetUpWindowNoClear(w, numColumns_) == WindowSetNumColumns(w, numColumns_)

\* window->clear() and window->setNumColumns(numColumns) at the start of the
\* call, both succeeding
SetUpWindow(w, numColumns_) == WindowSetNumColumns(WindowClear(w), numColumns_)

\* lines 630-647: clear the window, set its column count, initialise locals
Begin ==
    /\ pc = "entry"
    /\ UNCHANGED <<interrupted, hvars, ovars, tvars>>
    /\ IF fault = "clear"
       THEN /\ exception' = "Failed to clear the cursor window"
            /\ failedOps' = failedOps \cup {"clear"}
            /\ result' = <<0, 0>>
            /\ pc' = "returned"
            /\ UNCHANGED <<window, numColumns>>
       ELSE IF fault = "setNumColumns"
       THEN /\ window' = WindowClear(window)
            /\ numColumns' = NumColumns
            /\ exception' = "Failed to set the cursor window column count"
            /\ failedOps' = failedOps \cup {"setNumColumns"}
            /\ result' = <<0, 0>>
            /\ pc' = "returned"
       ELSE /\ window' = SetUpWindow(window, NumColumns)
            /\ numColumns' = NumColumns
            /\ pc' = "loop"
            /\ UNCHANGED <<exception, result, failedOps>>
    /\ retryCount' = 0
    /\ totalRows' = 0
    /\ addedRows' = 0
    /\ windowFull' = FALSE
    /\ gotException' = FALSE
    /\ UNCHANGED <<inputs, stmtPos, stmtState, startPos, done, resetCalled,
                   lastOutcome, streak, encodes, restarted, firstCpr, lastCpr,
                   longStreakEnded, calls>>

\* sqlite3_step returned SQLITE_ROW (lines 650-678)
StepRow ==
    /\ pc = "loop"
    /\ ~interrupted
    /\ UNCHANGED <<interrupted, hvars, ovars, tvars>>
    /\ ~done
    /\ LoopCond(gotException, windowFull, countAllRows)
    /\ stmtPos < Len(rows)
    /\ LET row == rows[stmtPos + 1]
           total1 == totalRows + 1
           cpr1 == CopyRow(window, row, numColumns, startPos, addedRows, stmtPos)
           restart == NeedRestart(cpr1.result, addedRows, startPos, requiredPos)
           startPos2 == startPos + addedRows
           cpr2 == CopyRow(RestartWindowUnder(fault, cpr1.window, numColumns),
                           row, numColumns, startPos2, 0, stmtPos)
           cpr == IF restart THEN cpr2 ELSE cpr1
       IN /\ stmtPos' = stmtPos + 1
          /\ stmtState' = "stepping"
          /\ retryCount' = RetryAfterRow(retryCount)
          /\ totalRows' = total1
          /\ lastOutcome' = "SQLITE_ROW"
          /\ streak' = StreakBefore
          /\ longStreakEnded' = (longStreakEnded \/ StreakBefore >= RETRY_LIMIT - 1)
          /\ IF SkipRow(startPos, total1, windowFull)
             THEN /\ encodes' = 0
                  /\ restarted' = FALSE
                  /\ firstCpr' = "none"
                  /\ lastCpr' = "none"
                  /\ UNCHANGED <<window, startPos, addedRows, windowFull,
                                 gotException, exception, failedOps>>
             ELSE /\ encodes' = IF restart THEN 2 ELSE 1
                  /\ restarted' = restart
                  /\ firstCpr' = cpr1.result
                  /\ lastCpr' = cpr.result
                  /\ failedOps' = IF restart /\ fault \in RestartFaults
                                  THEN failedOps \cup {fault} ELSE failedOps
                  /\ window' = cpr.window
                  /\ startPos' = IF restart THEN startPos2 ELSE startPos
                  /\ addedRows' = IF cpr.result = CPR_OK
                                  THEN (IF restart THEN 0 ELSE addedRows) + 1
                                  ELSE (IF restart THEN 0 ELSE addedRows)
                  /\ windowFull' = IF cpr.result = CPR_FULL THEN TRUE ELSE windowFull
                  /\ gotException' = IF cpr.result \notin {CPR_OK, CPR_FULL}
                                     THEN TRUE ELSE gotException
                  /\ exception' = IF cpr1.thrown \/ (restart /\ cpr2.thrown)
                                  THEN "Unknown column type when filling window"
                                  ELSE exception
    /\ UNCHANGED <<inputs, pc, numColumns, done, result, resetCalled, calls>>

\* sqlite3_step returned SQLITE_DONE (lines 679-682)
StepDone ==
    /\ pc = "loop"
    /\ ~interrupted
    /\ UNCHANGED <<interrupted, hvars, ovars, tvars>>
    /\ ~done
    /\ LoopCond(gotException, windowFull, countAllRows)
    /\ stmtPos = Len(rows)
    /\ stmtState' = "stepping"
    /\ done' = TRUE
    /\ lastOutcome' = "SQLITE_DONE"
    /\ streak' = StreakBefore
    /\ encodes' = 0
    /\ restarted' = FALSE
    /\ firstCpr' = "none"
    /\ lastCpr' = "none"
    /\ UNCHANGED <<inputs, stmtPos, window, pc, startPos, numColumns, retryCount,
                   totalRows, addedRows, windowFull, gotException, result,
                   exception, resetCalled, longStreakEnded, failedOps, calls>>

\* sqlite3_step returned SQLITE_LOCKED or SQLITE_BUSY (lines 683-694)
StepLocked ==
    /\ pc = "loop"
    /\ ~interrupted
    /\ UNCHANGED <<interrupted, hvars, ovars, tvars>>
    /\ ~done
    /\ LoopCond(gotException, windowFull, countAllRows)
    /\ contended
    /\ \E err \in LockOutcomes : lastOutcome' = err
    /\ stmtState' = "stepping"
    /\ streak' = IF StreakBefore < StreakCap THEN StreakBefore + 1 ELSE StreakCap
    /\ IF RetryExceeded(retryCount)
       THEN /\ exception' = "retrycount exceeded"
            /\ gotException' = TRUE
            /\ failedOps' = failedOps \cup {"step"}
            /\ UNCHANGED retryCount
       ELSE /\ retryCount' = NextRetryCount(retryCount)
            /\ UNCHANGED <<exception, gotException, failedOps>>
    /\ encodes' = 0
    /\ restarted' = FALSE
    /\ firstCpr' = "none"
    /\ lastCpr' = "none"
    /\ UNCHANGED <<inputs, stmtPos, window, pc, startPos, numColumns,
                   totalRows, addedRows, windowFull, done, result, resetCalled,
                   longStreakEnded, calls>>

\* sqlite3_step returned any other code (lines 695-698); after
\* sqlite3_interrupt that is the only outcome of a step
StepError ==
    /\ pc = "loop"
    /\ UNCHANGED <<interrupted, hvars, ovars, tvars>>
    /\ ~done
    /\ LoopCond(gotException, windowFull, countAllRows)
    /\ stmtState' = "stepping"
    /\ lastOutcome' = IF interrupted THEN "SQLITE_INTERRUPT" ELSE "SQLITE_ERROR"
    /\ streak' = StreakBefore
    /\ exception' = "engine error"
    /\ gotException' = TRUE
    /\ encodes' = 0
    /\ restarted' = FALSE
    /\ firstCpr' = "none"
    /\ lastCpr' = "none"
    /\ failedOps' = failedOps \cup {"step"}
    /\ UNCHANGED <<inputs, stmtPos, window, pc, startPos, numColumns, retryCount,
                   totalRows, addedRows, windowFull, done, result, resetCalled,
                   longStreakEnded, calls>>

\* variants that reset the statement only when the loop ended without error,
\* and never
ResetOnlyOnSuccess(gotException_) == ~gotException_

ResetNever(gotException_) == FALSE

\* "sqlite3_reset(statement);" after the loop: on every outcome of the loop
ResetOnExit(gotException_) == TRUE

\* lines 701-711: leave the loop, reset the statement, return the result
Finish ==
    /\ pc = "loop"
    /\ UNCHANGED <<interrupted, hvars, ovars, tvars>>
    /\ done \/ ~LoopCond(gotException, windowFull, countAllRows)
    /\ IF ResetOnExit(gotException)
       THEN stmtState' = "idle" /\ stmtPos' = 0 /\ resetCalled' = TRUE
       ELSE UNCHANGED <<stmtState, stmtPos, resetCalled>>
    /\ result' = <<startPos, totalRows>>
    /\ pc' = "returned"
    /\ UNCHANGED <<inputs, window, startPos, numColumns, retryCount, totalRows,
                   addedRows, windowFull, gotException, done, exception,
                   lastOutcome, streak, encodes, restarted, firstCpr, lastCpr,
                   longStreakEnded, failedOps, calls>>

Next == Begin \/ StepRow \/ StepDone \/ StepLocked \/ StepError \/ Finish

Spec == Init /\ [][Next]_vars

(***************************************************************************)
(* The call runs to completion on the calling thread: a step that can be   *)
(* taken is taken.                                                         *)
(***************************************************************************)
\* the action is Next, its disjuncts in another order
FairSpec ==
    Spec /\ WF_vars(Finish \/ StepError \/ StepDone \/ StepLocked \/ Begin \/ StepRow)

(***************************************************************************)
(* Calls in a row on the same statement and window with the same           *)
(* arguments, the result unchanged and no other connection holding locks.  *)
(***************************************************************************)
InitTwice ==
    /\ rows \in SeqsUpTo(RowKinds, MaxLockedRows)
    /\ startPosArg \in 0..MaxLockedRows
    /\ requiredPos \in 0..MaxLockedRows
    /\ contended = FALSE
    /\ fault = "none"
    /\ InitCommon
    /\ HelperIdle

\* the caller makes the call again; the locals of the new call are fresh
Recall ==
    /\ pc = "returned"
    /\ interrupted' = FALSE
    /\ UNCHANGED <<hvars, ovars, tvars>>
    /\ callNo < MaxCalls
    /\ callNo' = callNo + 1
    /\ prev' = [result |-> result, rows |-> window.rows, used |-> window.used,
                exception |-> exception]
    /\ pc' = "entry"
    /\ startPos' = startPosArg
    /\ numColumns' = 0
    /\ retryCount' = 0
    /\ totalRows' = 0
    /\ addedRows' = 0
    /\ windowFull' = FALSE
    /\ gotException' = FALSE
    /\ done' = FALSE
    /\ result' = <<0, 0>>
    /\ exception' = "none"
    /\ resetCalled' = FALSE
    /\ lastOutcome' = "none"
    /\ streak' = 0
    /\ encodes' = 0
    /\ restarted' = FALSE
    /\ firstCpr' = "none"
    /\ lastCpr' = "none"
    /\ longStreakEnded' = FALSE
    /\ failedOps' = {}
    /\ UNCHANGED <<inputs, stmtPos, stmtState, window>>

NextTwice == Begin \/ StepRow \/ StepDone \/ StepError \/ Finish \/ Recall

SpecTwice == InitTwice /\ [][NextTwice]_vars

(***************************************************************************)
(* A window whose clear or setNumColumns may fail at any one of the places *)
(* the call uses it, the overflow recovery included.                       *)
(***************************************************************************)
InitFaults ==
    /\ rows \in SeqsUpTo(LockedRowKinds, MaxLockedRows)
    /\ startPosArg \in 0..(MaxLockedRows - 1)
    /\ requiredPos \in 0..(MaxLockedRows - 1)
    /\ contended \in BOOLEAN
    /\ fault \in {"none", "clear", "setNumColumns"} \cup RestartFaults
    /\ InitCommon
    /\ HelperIdle

SpecFaults == InitFaults /\ [][Next]_vars

(***************************************************************************)
(* nativeInterrupt: sqlite3_interrupt on the connection, called by another *)
(* thread while the call is inside its loop.  From then on a step of the   *)
(* statement yields neither a row nor Done nor Busy/Locked but an error.   *)
(***************************************************************************)
Interrupt ==
    /\ pc = "loop"
    /\ ~interrupted
    /\ interrupted' = TRUE
    /\ UNCHANGED <<inputs, stmtPos, stmtState, window, pc, startPos, numColumns,
                   retryCount, totalRows, addedRows, windowFull, gotException,
                   done, result, exception, resetCalled, lastOutcome, streak,
                   encodes, restarted, firstCpr, lastCpr, longStreakEnded,
                   failedOps, calls, hvars, ovars, tvars>>

\* with and without another connection holding locks
InitInterrupt ==
    /\ rows \in SeqsUpTo(LockedRowKinds, MaxLockedRows)
    /\ startPosArg \in 0..(MaxLockedRows - 1)
    /\ requiredPos \in 0..(MaxLockedRows - 1)
    /\ contended \in BOOLEAN
    /\ fault = "none"
    /\ InitCommon
    /\ HelperIdle

NextInterrupt ==
    Begin \/ StepRow \/ StepDone \/ StepLocked \/ StepError \/ Finish \/ Interrupt

SpecInterrupt == InitInterrupt /\ [][NextInterrupt]_vars

(***************************************************************************)
(* Results with every kind of column value, the zero-length text, the      *)
(* zero-length blob, a text with an embedded zero byte and a negative      *)
(* integer among them; no lock contention.                                 *)
(***************************************************************************)
RowEmpty == MkRow(BlobCol(0), TextCol(0))
RowMixed == MkRow(Col(SQLITE_TEXT, <<0, 6>>), Col(SQLITE_INTEGER, -7))
RowBlobText == MkRow(BlobCol(2), TextCol(1))

ValueRowKinds == {RowSmall, RowText, RowEmpty, RowMixed, RowBlobText}

InitValues ==
    /\ rows \in SeqsUpTo(ValueRowKinds, MaxLockedRows)
    /\ startPosArg \in 0..(MaxLockedRows - 1)
    /\ requiredPos \in 0..(MaxLockedRows - 1)
    /\ contended = FALSE
    /\ fault = "none"
    /\ InitCommon
    /\ HelperIdle

\* no other connection holds locks: a step never reports Busy or Locked
NextValues == Begin \/ StepRow \/ StepDone \/ StepError \/ Finish

SpecValues == InitValues /\ [][NextValues]_vars

(***************************************************************************)
(* The value the call returns: "jlong(startPos) << 32 | jlong(totalRows)". *)
(* A jint has IntBits bits here and a jlong twice as many; a jlong is kept *)
(* as the unsigned number of its bit pattern.                              *)
(***************************************************************************)
RECURSIVE Pow2(_)
Pow2(n) == IF n = 0 THEN 1 ELSE 2 * Pow2(n - 1)

JintRange == (0 - Pow2(IntBits - 1))..(Pow2(IntBits - 1) - 1)

\* "jlong(x)": sign extension of a jint
ToJlong(x) == x % Pow2(2 * IntBits)

\* "<<" on a jlong
ShiftLeft(v, n) == (v * Pow2(n)) % Pow2(2 * IntBits)

\* "|" on two jlongs
RECURSIVE BitOr(_, _)
BitOr(a, b) ==
    IF a = 0 THEN b
    ELSE IF b = 0 THEN a
    ELSE (IF a % 2 = 1 \/ b % 2 = 1 THEN 1 ELSE 0) + 2 * BitOr(a \div 2, b \div 2)

\* variant that shifts by one bit less
PackResultNarrowShift(startPos_, totalRows_) ==
    BitOr(ShiftLeft(ToJlong(startPos_), IntBits - 1), ToJlong(totalRows_))

\* "jlong result = jlong(startPos) << 32 | jlong(totalRows);"
PackResult(startPos_, totalRows_) ==
    BitOr(ShiftLeft(ToJlong(startPos_), IntBits), ToJlong(totalRows_))

\* the two halves of a jlong as the caller takes them apart:
\* "(int) (result >> 32)" and "(int) result"
ToJint(u) == IF u >= Pow2(IntBits - 1) THEN u - Pow2(IntBits) ELSE u

HighWord(v) == ToJint(v \div Pow2(IntBits))

LowWord(v) == ToJint(v % Pow2(IntBits))

\* lines 630-641: the window cannot be cleared or configured
ReturnZero ==
    /\ pc = "entry"
    /\ fault # "none"
    /\ exception' = IF fault = "clear" THEN "Failed to clear the cursor window"
                    ELSE "Failed to set the cursor window column count"
    /\ result' = 0
    /\ pc' = "returned"
    /\ UNCHANGED <<inputs, stmtPos, stmtState, window, startPos, numColumns,
                   retryCount, totalRows, addedRows, windowFull, gotException,
                   done, resetCalled, lastOutcome, streak, encodes, restarted,
                   firstCpr, lastCpr, longStreakEnded, failedOps, calls,
                   interrupted, hvars, ovars, tvars>>

\* lines 701-711: after the loop, with or without a pending exception
ReturnPacked ==
    /\ pc = "loop"
    /\ resetCalled' = TRUE
    /\ result' = PackResult(startPos, totalRows)
    /\ pc' = "returned"
    /\ UNCHANGED <<inputs, stmtPos, stmtState, window, startPos, numColumns,
                   retryCount, totalRows, addedRows, windowFull, gotException,
                   done, exception, lastOutcome, streak, encodes, restarted,
                   firstCpr, lastCpr, longStreakEnded, failedOps, calls,
                   interrupted, hvars, ovars, tvars>>

\* the call about to return: before the loop with a failing window, or after
\* the loop with any startPos and totalRows a jint holds
InitPack ==
    /\ rows = <<>>
    /\ stmtPos = 0
    /\ stmtState = "idle"
    /\ contended = FALSE
    /\ requiredPos = 0
    /\ countAllRows = FALSE
    /\ window = [size |-> MaxWindow, used |-> 0, numColumns |-> NumColumns,
                 rows |-> <<>>]
    /\ startPosArg \in JintRange
    /\ startPos = startPosArg
    /\ \/ /\ pc = "entry"
          /\ fault \in {"clear", "setNumColumns"}
          /\ totalRows = 0
          /\ gotException = FALSE
          /\ exception = "none"
       \/ /\ pc = "loop"
          /\ fault = "none"
          /\ totalRows \in JintRange
          /\ gotException \in BOOLEAN
          /\ exception = IF gotException THEN "engine error" ELSE "none"
    /\ numColumns = NumColumns
    /\ retryCount = 0
    /\ addedRows = 0
    /\ windowFull = FALSE
    /\ done = ~gotException
    /\ result = 0
    /\ resetCalled = FALSE
    /\ lastOutcome = "none"
    /\ streak = 0
    /\ encodes = 0
    /\ restarted = FALSE
    /\ firstCpr = "none"
    /\ lastCpr = "none"
    /\ longStreakEnded = FALSE
    /\ failedOps = {}
    /\ callNo = 1
    /\ prev = NoPrev
    /\ interrupted = FALSE
    /\ HelperIdle

NextPack == ReturnZero \/ ReturnPacked

SpecPack == InitPack /\ [][NextPack]_vars

(***************************************************************************)
(* nativeOpen, as written in the three source files.  sqlite3_open_v2      *)
(* hands out a connection handle also when it fails, unless it ran out of  *)
(* memory; sqlite3_close releases a handle and does nothing without one.   *)
(***************************************************************************)
OpenErrors == {"SQLITE_OK", "SQLITE_CANTOPEN", "SQLITE_NOMEM"}

\* the handle sqlite3_open_v2 stores through its second argument
OpenedHandle(err) == IF err = "SQLITE_NOMEM" THEN "none" ELSE "open"

\* sqlite3_close
CloseHandle(h) == IF h = "open" THEN "closed" ELSE h

Opened(result_, thrown, handle) ==
    [result |-> result_, thrown |-> thrown, handle |-> handle]

\* the checks that follow a successful sqlite3_open_v2 in all three files
AfterOpen(h) ==
    IF oReadWrite /\ oReadOnly
    THEN Opened(0, "Could not open the database in read/write mode.", CloseHandle(h))
    ELSE IF oTimeoutErr
    THEN Opened(0, "Could not set busy timeout", CloseHandle(h))
    ELSE Opened(1, "none", h)

\* src/src/main/jni/sqlite/SQLiteNative.cpp lines 98-125
nativeOpenLiteOp ==
    LET h == OpenedHandle(oOpenErr) IN
    IF oOpenErr # "SQLITE_OK"
    THEN Opened(0, "Could not open database", CloseHandle(h))
    ELSE AfterOpen(h)

\* src/sqlite-android/.../SQLiteNative.cpp lines 103-129
nativeOpenAndroidOp ==
    LET h == OpenedHandle(oOpenErr) IN
    IF oOpenErr # "SQLITE_OK"
    THEN Opened(0, "Could not open database", h)
    ELSE AfterOpen(h)

\* src/sqlite-android/.../android_database_SQLiteConnection.cpp lines 101-150
nativeOpenConnectionOp ==
    LET h == OpenedHandle(oOpenErr) IN
    IF oOpenErr # "SQLITE_OK"
    THEN Opened(0, "Could not open database", h)
    ELSE IF oCollationErr
    THEN Opened(0, "Could not register collation", CloseHandle(h))
    ELSE AfterOpen(h)

OpenCall(impl, out) ==
    /\ oPc = "idle"
    /\ oImpl = impl
    /\ oPc' = "returned"
    /\ oResult' = out.result
    /\ oThrown' = out.thrown
    /\ oHandle' = out.handle
    /\ UNCHANGED <<oImpl, oReadWrite, oOpenErr, oCollationErr, oReadOnly,
                   oTimeoutErr>>
    /\ UNCHANGED <<cwvars, hvars, tvars>>

nativeOpenLite == OpenCall("src", nativeOpenLiteOp)

nativeOpenAndroid == OpenCall("sqlite-android", nativeOpenAndroidOp)

nativeOpenConnection == OpenCall("SQLiteConnection", nativeOpenConnectionOp)

InitOpen ==
    /\ rows = <<>>
    /\ startPosArg = 0
    /\ requiredPos = 0
    /\ contended = FALSE
    /\ fault = "none"
    /\ InitCommon
    /\ countAllRows = FALSE
    /\ window.size = MaxWindow
    /\ connErrcode = "SQLITE_OK"
    /\ connRowid = 0
    /\ connChanges = 0
    /\ hRows = <<>>
    /\ hFailAt = 0
    /\ hInsert = 0
    /\ hStepNo = 0
    /\ hOnRow = FALSE
    /\ hPc = "idle"
    /\ hName = "none"
    /\ hArg = 0
    /\ hResult = [kind |-> "none", num |-> 0, chars |-> <<>>]
    /\ hThrown = "none"
    /\ hSteps = 0
    /\ hReset = FALSE
    /\ hCalls = 0
    /\ oImpl \in {"src", "sqlite-android", "SQLiteConnection"}
    /\ oReadWrite \in BOOLEAN
    /\ oOpenErr \in OpenErrors
    /\ oCollationErr \in BOOLEAN
    /\ oReadOnly \in BOOLEAN
    /\ oTimeoutErr \in BOOLEAN
    /\ oHandle = "none"
    /\ oPc = "idle"
    /\ oResult = 0
    /\ oThrown = "none"
    /\ ThrowIdle

NextOpen == nativeOpenLite \/ nativeOpenAndroid \/ nativeOpenConnection

SpecOpen == InitOpen /\ [][NextOpen]_vars

(***************************************************************************)
(* throw_sqlite3_exception(env, errcode, sqlite3Message, message)          *)
(* (android_database_SQLiteCommon.cpp lines 60-244).  The switch is kept   *)
(* as the list of its cases in source order, each with the statements of   *)
(* its body and whether the body ends in a break; a body without a break   *)
(* runs on into the body of the case that follows.                         *)
(***************************************************************************)
GenericClass == "android/database/sqlite/SQLiteException"

\* an extended error code: the primary code in the low 8 bits, the number
\* of the extension above them
ExtendedCode(primary, n) == primary + 256 * n

PrimaryCodes == (0..MaxPrimary) \cup {100, 101}

ErrCodes == {ExtendedCode(q, n) : q \in PrimaryCodes, n \in 0..MaxExtension}

\* variant without the mask
MaskOffNothing(errcode) == errcode

\* "errcode & 0xff"
MaskOff(errcode) == errcode % 256

\* "case SQLITE_X_Y: additionalInfo = info;" of an inner switch, with or
\* without "break;"
In(n, info, brk) == [n |-> n, info |-> info, brk |-> brk]

\* a case of the outer switch: its label, the class it chooses, the cases of
\* its inner switch, the additionalInfo it assigns itself ("" if it assigns
\* none), whether it sets sqlite3Message to null, whether it ends in a break
Case(primary, class, inner, info, clearsMessage, brk) ==
    [primary |-> primary, class |-> class, inner |-> inner, info |-> info,
     clearsMessage |-> clearsMessage, brk |-> brk]

Switch == <<
    \* case SQLITE_ERROR
    Case(1, "android/database/sqlite/SQLiteException",
         <<In(1, "MISSING_COLLSEQ", TRUE), In(2, "RETRY", TRUE),
           In(3, "SNAPSHOT", TRUE)>>,
         "", FALSE, TRUE),
    \* case SQLITE_IOERR
    Case(10, "android/database/sqlite/SQLiteDiskIOException",
         <<In(1, "READ", TRUE), In(2, "SHORT_READ", TRUE),
           In(3, "WRITE", TRUE), In(4, "FSYNC", TRUE),
           In(5, "DIR_FSYNC", TRUE), In(6, "TRUNCATE", TRUE),
           In(7, "FSTAT", TRUE), In(8, "UNLOCK", TRUE),
           In(9, "RDLOCK", TRUE), In(10, "DELETE", TRUE),
           In(11, "BLOCKED", TRUE), In(12, "NOMEM", TRUE),
           In(13, "ACCESS", TRUE), In(14, "CHECKRESERVEDLOCK", TRUE),
           In(15, "LOCK", TRUE), In(16, "CLOSE", TRUE),
           In(17, "DIR_CLOSE", TRUE), In(18, "SHMOPEN", TRUE),
           In(19, "SHMSIZE", TRUE), In(20, "SHMLOCK", TRUE),
           In(21, "SHMMAP", TRUE), In(22, "SEEK", TRUE),
           In(23, "DELETE_NOENT", TRUE), In(24, "MMAP", TRUE),
           In(25, "GETTEMPPATH", TRUE), In(26, "CONVPATH", TRUE),
           In(27, "VNODE", TRUE), In(28, "AUTH", TRUE),
           In(29, "BEGIN_ATOMIC", TRUE),
           In(30, "COMMIT_ATOMIC", TRUE),
           In(31, "ROLLBACK_ATOMIC", TRUE), In(32, "DATA", TRUE),
           In(33, "CORRUPTFS", TRUE), In(34, "IN_PAGE", TRUE)>>,
         "", FALSE, TRUE),
    \* case SQLITE_CORRUPT
    Case(11, "android/database/sqlite/SQLiteDatabaseCorruptException",
         <<In(1, "CORRUPT_VTAB", FALSE),
           In(2, "CORRUPT_SEQUENCE", FALSE),
           In(3, "CORRUPT_INDEX", FALSE)>>,
         "", FALSE, FALSE),
    \* case SQLITE_NOTADB
    Case(26, "android/database/sqlite/SQLiteDatabaseCorruptException",
         <<>>,
         "NOTADB", FALSE, TRUE),
    \* case SQLITE_CONSTRAINT
    Case(19, "android/database/sqlite/SQLiteConstraintException",
         <<In(1, "CHECK", TRUE), In(2, "COMMITHOOK", TRUE),
           In(3, "FOREIGNKEY", TRUE), In(4, "FUNCTION", TRUE),
           In(5, "NOTNULL", TRUE), In(6, "PRIMARYKEY", TRUE),
           In(7, "TRIGGER", TRUE), In(8, "UNIQUE", TRUE),
           In(9, "VTAB", TRUE), In(10, "ROWID", TRUE),
           In(11, "PINNED", TRUE), In(12, "DATATYPE", TRUE)>>,
         "", FALSE, TRUE),
    \* case SQLITE_ABORT
    Case(4, "android/database/sqlite/SQLiteAbortException",
         <<In(2, "ROLLBACK", TRUE)>>,
         "", FALSE, TRUE),
    \* case SQLITE_DONE
    Case(101, "android/database/sqlite/SQLiteDoneException",
         <<>>,
         "", TRUE, TRUE),
    \* case SQLITE_FULL
    Case(13, "android/database/sqlite/SQLiteFullException",
         <<>>,
         "", FALSE, TRUE),
    \* case SQLITE_MISUSE
    Case(21, "android/database/sqlite/SQLiteMisuseException",
         <<>>,
         "", FALSE, TRUE),
    \* case SQLITE_PERM
    Case(3, "android/database/sqlite/SQLiteAccessPermException",
         <<>>,
         "", FALSE, TRUE),
    \* case SQLITE_BUSY
    Case(5, "android/database/sqlite/SQLiteDatabaseLockedException",
         <<In(1, "RECOVERY", TRUE), In(2, "SNAPSHOT", TRUE),
           In(3, "TIMEOUT", TRUE)>>,
         "", FALSE, TRUE),
    \* case SQLITE_LOCKED
    Case(6, "android/database/sqlite/SQLiteTableLockedException",
         <<In(1, "SHAREDCACHE", TRUE), In(2, "VTAB", TRUE)>>,
         "", FALSE, TRUE),
    \* case SQLITE_READONLY
    Case(8, "android/database/sqlite/SQLiteReadOnlyDatabaseException",
         <<In(1, "RECOVERY", TRUE), In(2, "CANTLOCK", TRUE),
           In(3, "ROLLBACK", TRUE), In(4, "DBMOVED", TRUE),
           In(5, "CANTINIT", TRUE), In(6, "DIRECTORY", TRUE)>>,
         "", FALSE, TRUE),
    \* case SQLITE_CANTOPEN
    Case(14, "android/database/sqlite/SQLiteCantOpenDatabaseException",
         <<In(1, "NOTEMPDIR", FALSE), In(2, "ISDIR", FALSE),
           In(3, "FULLPATH", FALSE), In(4, "CONVPATH", FALSE),
           In(5, "DIRTYWAL", FALSE), In(6, "SYMLINK", FALSE)>>,
         "", FALSE, TRUE),
    \* case SQLITE_TOOBIG
    Case(18, "android/database/sqlite/SQLiteBlobTooBigException",
         <<>>,
         "", FALSE, TRUE),
    \* case SQLITE_RANGE
    Case(25, "android/database/sqlite/SQLiteBindOrColumnIndexOutOfRangeException",
         <<>>,
         "", FALSE, TRUE),
    \* case SQLITE_NOMEM
    Case(7, "android/database/sqlite/SQLiteOutOfMemoryException",
         <<>>,
         "", FALSE, TRUE),
    \* case SQLITE_MISMATCH
    Case(20, "android/database/sqlite/SQLiteDatatypeMismatchException",
         <<>>,
         "", FALSE, TRUE),
    \* case SQLITE_INTERRUPT
    Case(9, "com/darkyen/sqlitelite/SQLiteInterruptedException",
         <<>>,
         "", FALSE, TRUE)>>

\* the statements of an inner switch from case j on
RECURSIVE InnerFrom(_, _, _)
InnerFrom(cases, j, info) ==
    IF j > Len(cases) THEN info
    ELSE IF cases[j].brk THEN cases[j].info
    ELSE InnerFrom(cases, j + 1, cases[j].info)

\* "switch (errcode) { ... default: break; }" inside a case
InnerSwitch(primary, cases, errcode, info) ==
    LET m == {j \in 1..Len(cases) : ExtendedCode(primary, cases[j].n) = errcode}
    IN IF m = {} THEN info
       ELSE InnerFrom(cases, CHOOSE j \in m : \A k \in m : j <= k, info)

\* the statements of the outer switch from case i on
RECURSIVE OuterFrom(_, _, _)
OuterFrom(i, errcode, st) ==
    LET c == Switch[i]
        st1 == [class |-> c.class,
                info |-> IF c.info # "" THEN c.info
                         ELSE InnerSwitch(c.primary, c.inner, errcode, st.info),
                keepsMessage |-> st.keepsMessage /\ ~c.clearsMessage]
    IN IF c.brk \/ i = Len(Switch) THEN st1 ELSE OuterFrom(i + 1, errcode, st1)

\* "switch (errcode & 0xff) { ... default: ... }"
SwitchOn(errcode) ==
    LET m == {i \in 1..Len(Switch) : Switch[i].primary = MaskOff(errcode)}
    IN IF m = {}
       THEN [class |-> GenericClass, info |-> "", keepsMessage |-> TRUE]
       ELSE OuterFrom(CHOOSE i \in m : TRUE, errcode,
                      [class |-> "none", info |-> "", keepsMessage |-> TRUE])

\* the whole function: the class after the FindClass check, additionalInfo,
\* and the parts of the message handed to jniThrowException
throw_sqlite3_exceptionOp(errcode, classFound, hasSqlite3Message, hasMessage) ==
    LET sw == SwitchOn(errcode) IN
    [class |-> IF classFound THEN sw.class ELSE GenericClass,
     info |-> sw.info,
     message |->
        IF hasSqlite3Message /\ sw.keepsMessage
        THEN <<"sqlite3Message", " (", sw.info,
               IF sw.info # "" THEN ", " ELSE "", "code ", errcode, ")",
               IF hasMessage THEN ": " ELSE "",
               IF hasMessage THEN "message" ELSE "">>
        ELSE <<IF hasMessage THEN "message" ELSE "null">>]

throw_sqlite3_exception ==
    /\ tPc = "idle"
    /\ \E hasSqlite3Message \in BOOLEAN, hasMessage \in BOOLEAN :
          LET t == throw_sqlite3_exceptionOp(tErrcode, tClassFound,
                                             hasSqlite3Message, hasMessage)
          IN /\ tClass' = t.class
             /\ tInfo' = t.info
             /\ tMessage' = t.message
    /\ tPc' = "thrown"
    /\ UNCHANGED <<tErrcode, tClassFound>>
    /\ UNCHANGED <<cwvars, hvars, ovars>>

InitThrow ==
    /\ rows = <<>>
    /\ startPosArg = 0
    /\ requiredPos = 0
    /\ contended = FALSE
    /\ fault = "none"
    /\ InitCommon
    /\ countAllRows = FALSE
    /\ window.size = MaxWindow
    /\ connErrcode = "SQLITE_OK"
    /\ connRowid = 0
    /\ connChanges = 0
    /\ hRows = <<>>
    /\ hFailAt = 0
    /\ hInsert = 0
    /\ hStepNo = 0
    /\ hOnRow = FALSE
    /\ hPc = "idle"
    /\ hName = "none"
    /\ hArg = 0
    /\ hResult = [kind |-> "none", num |-> 0, chars |-> <<>>]
    /\ hThrown = "none"
    /\ hSteps = 0
    /\ hReset = FALSE
    /\ hCalls = 0
    /\ OpenIdle
    /\ tErrcode \in ErrCodes
    /\ tClassFound \in BOOLEAN
    /\ tPc = "idle"
    /\ tClass = "none"
    /\ tInfo = ""
    /\ tMessage = <<>>

SpecThrow == InitThrow /\ [][throw_sqlite3_exception]_vars

(***************************************************************************)
(* The engine as the scalar helpers and the column getters see it: one     *)
(* connection and one prepared statement.  The n-th sqlite3_step after a   *)
(* reset yields the n-th row, or fails, or reports SQLITE_DONE.            *)
(***************************************************************************)
MaxHelperRows == 2      \* rows a statement of the helpers yields
MaxHelperColumns == 2   \* columns of such a row
MaxHelperCalls == 2     \* helper calls made one after another on a connection

TextOf(chars) == Col(SQLITE_TEXT, chars)

HelperVals == {IntCol, NullCol, TextOf(<<1>>), TextOf(<<2, 3>>)}

InsertRowids == {5}
Defaults == {-3}
Garbage == {0, 99}      \* what a read beyond a text buffer may find

Eng == [stepNo |-> hStepNo, onRow |-> hOnRow, errcode |-> connErrcode,
        rowid |-> connRowid, changes |-> connChanges]

\* the outcome of the n-th sqlite3_step since the reset
StepResult(n) ==
    IF hFailAt = n THEN "SQLITE_ERROR"
    ELSE IF n <= Len(hRows) THEN "SQLITE_ROW" ELSE "SQLITE_DONE"

\* sqlite3_step: the outcome is left as the connection's error code; an
\* insert that completes sets the last insert rowid and the change count
EngineStep(e) ==
    LET n == e.stepNo + 1
        rc == StepResult(n)
        completes == rc = "SQLITE_DONE" /\ hInsert > 0
    IN [rc |-> rc,
        eng |-> [e EXCEPT !.stepNo = n,
                          !.onRow = (rc = "SQLITE_ROW"),
                          !.errcode = rc,
                          !.rowid = IF completes THEN hInsert ELSE @,
                          !.changes = IF completes THEN 1 ELSE @]]

\* sqlite3_reset / sqlite3_finalize: the error of a failed step stays
EngineReset(e) ==
    [e EXCEPT !.stepNo = 0, !.onRow = FALSE,
              !.errcode = IF @ = "SQLITE_ERROR" THEN @ ELSE "SQLITE_OK"]

\* sqlite3_set_last_insert_rowid
SetLastInsertRowid(e, v) == [e EXCEPT !.rowid = v]

\* sqlite3ex_clear_errcode: sqlite3ErrorClear(db)
ClearErrcode(e) == [e EXCEPT !.errcode = "SQLITE_OK"]

\* sqlite3_column_count, on a row
ColumnCount(e) == Len(hRows[e.stepNo])

\* access to column i (from 0) of the current row: without a current row, or
\* with i out of range, the value is NULL and the error code SQLITE_RANGE
ColumnAt(e, i) ==
    IF e.onRow /\ i >= 0 /\ i < ColumnCount(e)
    THEN [col |-> hRows[e.stepNo][i + 1], eng |-> e]
    ELSE [col |-> NullCol, eng |-> [e EXCEPT !.errcode = "SQLITE_RANGE"]]

\* sqlite3_column_int64 / sqlite3_column_double: the number, 0 for NULL and
\* for text or blobs that do not start with a number
ColumnNumber(col) ==
    IF col.type \in {SQLITE_INTEGER, SQLITE_FLOAT} THEN col.val ELSE 0

\* decimal digits of a small non-negative number, as characters
Digits(n) == IF n < 10 THEN <<48 + n>> ELSE <<48 + (n \div 10), 48 + (n % 10)>>

\* sqlite3_column_text16 / sqlite3_column_blob with the length that
\* sqlite3_column_bytes16 / sqlite3_column_bytes report: the characters of a
\* text or blob, the digits of a number, nothing (a NULL pointer) for NULL
ColumnChars(col) ==
    IF col.type \in {SQLITE_TEXT, SQLITE_BLOB} THEN col.val
    ELSE IF col.type \in {SQLITE_INTEGER, SQLITE_FLOAT} THEN Digits(col.val)
    ELSE <<>>

\* values returned to the caller
Value(kind, num, chars) == [kind |-> kind, num |-> num, chars |-> chars]
Void == Value("void", 0, <<>>)
NullRef == Value("null", 0, <<>>)
LongOf(v) == Value("long", v, <<>>)
DoubleOf(v) == Value("double", v, <<>>)
StringOf(chars) == Value("string", 0, chars)
ByteArrayOf(chars) == Value("bytes", 0, chars)
BoolOf(b) == Value("boolean", IF b THEN 1 ELSE 0, <<>>)

\* what a helper leaves: the engine, its return value, the exception it
\* raised, the steps it made and whether it reset the statement
Out(e, result_, thrown, steps, reset) ==
    [eng |-> e, result |-> result_, thrown |-> thrown, steps |-> steps,
     reset |-> reset]

EngineError == "engine error"   \* throw_sqlite3_exception(env, dbConnection)

(***************************************************************************)
(* The helpers without a reset (sqlite-android SQLiteNative.cpp 279-387)   *)
(***************************************************************************)
QueriesMessage ==
    "Queries can be performed using SQLiteDatabase query or rawQuery methods only."

\* executeNonQuery: one step; a row or a failure raises
ExecuteNonQuery(e) ==
    LET s == EngineStep(e) IN
    [rc |-> s.rc, eng |-> s.eng,
     thrown |-> IF s.rc = "SQLITE_ROW" THEN QueriesMessage
                ELSE IF s.rc # "SQLITE_DONE" THEN EngineError ELSE "none"]

nativeExecuteOp(e) ==
    LET q == ExecuteNonQuery(e) IN Out(q.eng, Void, q.thrown, 1, FALSE)

nativeExecuteForChangedRowCountOp(e) ==
    LET q == ExecuteNonQuery(e) IN
    Out(q.eng, LongOf(IF q.rc = "SQLITE_DONE" THEN q.eng.changes ELSE -1),
        q.thrown, 1, FALSE)

nativeExecuteForLastInsertedRowIdOp(e) ==
    LET q == ExecuteNonQuery(e) IN
    Out(q.eng,
        LongOf(IF q.rc = "SQLITE_DONE" /\ q.eng.changes > 0
               THEN q.eng.rowid ELSE -1),
        q.thrown, 1, FALSE)

\* executeOneRowQuery: one step; anything but a row raises
ExecuteOneRowQuery(e) ==
    LET s == EngineStep(e) IN
    [rc |-> s.rc, eng |-> s.eng,
     thrown |-> IF s.rc # "SQLITE_ROW" THEN EngineError ELSE "none"]

nativeExecuteForLongOp(e) ==
    LET q == ExecuteOneRowQuery(e) IN
    Out(q.eng,
        IF q.rc = "SQLITE_ROW" /\ ColumnCount(q.eng) >= 1
        THEN LongOf(ColumnNumber(ColumnAt(q.eng, 0).col)) ELSE LongOf(-1),
        q.thrown, 1, FALSE)

nativeExecuteForStringOp(e) ==
    LET q == ExecuteOneRowQuery(e) IN
    Out(q.eng,
        IF /\ q.rc = "SQLITE_ROW"
           /\ ColumnCount(q.eng) >= 1
           /\ ColumnAt(q.eng, 0).col.type # SQLITE_NULL
        THEN StringOf(ColumnChars(ColumnAt(q.eng, 0).col)) ELSE NullRef,
        q.thrown, 1, FALSE)

(***************************************************************************)
(* The helpers that reset (src SQLiteNative.cpp 307-449)                   *)
(***************************************************************************)
\* variant of the final reset that is skipped when an exception is pending
HelperResetOnSuccess(e, thrown) ==
    IF thrown = "none" THEN [eng |-> EngineReset(e), reset |-> TRUE]
    ELSE [eng |-> e, reset |-> FALSE]

\* "sqlite3_reset(statement);" as the last statement of the helper
HelperReset(e, thrown) == [eng |-> EngineReset(e), reset |-> TRUE]

\* the helper returns through its final reset
Leave(e, result_, thrown, steps) ==
    LET r == HelperReset(e, thrown) IN Out(r.eng, result_, thrown, steps, r.reset)

\* variant of the zero-rows test that lets a row pass
NotDoneNorRow(rc) == rc \notin {"SQLITE_DONE", "SQLITE_ROW"}

\* "if (err != SQLITE_DONE)"
NotDone(rc) == rc # "SQLITE_DONE"

nativeExecuteAndResetOp(e) ==
    LET s == EngineStep(e) IN
    Leave(s.eng, Void, IF NotDone(s.rc) THEN "Expected 0 rows" ELSE "none", 1)

nativeExecuteIgnoreAndResetOp(e) ==
    LET s == EngineStep(e) IN
    Leave(s.eng, Void,
          IF s.rc # "SQLITE_DONE" /\ s.rc # "SQLITE_ROW"
          THEN "Unexpected error" ELSE "none", 1)

\* variant of the column count test that lets wider rows pass
WrongColumnCountOnlyNone(n) == n < 1

\* "if (sqlite3_column_count(statement) != 1)"
WrongColumnCount(n) == n # 1

\* variant of the second step's test that lets everything pass
MoreThanOneRowNever(rc) == FALSE

\* "if (sqlite3_step(statement) != SQLITE_DONE)"
MoreThanOneRow(rc) == rc # "SQLITE_DONE"

ReadLong(col) == LongOf(ColumnNumber(col))
ReadDouble(col) == DoubleOf(ColumnNumber(col))
ReadString(col) == StringOf(ColumnChars(col))
ReadBlob(col) == ByteArrayOf(ColumnChars(col))

\* the column read of the helper for values of the given kind
ReadAs(kind, col) ==
    IF kind = "long" THEN ReadLong(col)
    ELSE IF kind = "double" THEN ReadDouble(col)
    ELSE IF kind = "string" THEN ReadString(col)
    ELSE ReadBlob(col)

\* the common body of the Long, Double, StringOrNull and BlobOrNull helpers:
\* onDone is returned without a row, ReadAs(kind, col) for the single column
\* of the single row, initial when an exception is raised before the read
OneValueAndReset(e, kind, onDone, initial) ==
    LET s == EngineStep(e) IN
    IF s.rc = "SQLITE_DONE" THEN Leave(s.eng, onDone, "none", 1)
    ELSE IF s.rc = "SQLITE_ROW"
    THEN IF WrongColumnCount(ColumnCount(s.eng))
         THEN Leave(s.eng, initial, "Expected exactly one column", 1)
         ELSE LET v == ReadAs(kind, ColumnAt(s.eng, 0).col)
                  t == EngineStep(s.eng)
              IN Leave(t.eng, v,
                       IF MoreThanOneRow(t.rc) THEN "Got more than one row"
                       ELSE "none", 2)
    ELSE Leave(s.eng, initial, "Error evaluating", 1)

nativeExecuteForLongAndResetOp(e, defaultValue) ==
    OneValueAndReset(e, "long", LongOf(defaultValue), LongOf(0))

nativeExecuteForDoubleAndResetOp(e, defaultValue) ==
    OneValueAndReset(e, "double", DoubleOf(defaultValue), DoubleOf(0))

nativeExecuteForStringOrNullAndResetOp(e) ==
    OneValueAndReset(e, "string", NullRef, NullRef)

nativeExecuteForBlobOrNullAndResetOp(e) ==
    OneValueAndReset(e, "blob", NullRef, NullRef)

\* variant that leaves the connection's last insert rowid as it is
RowidKept(e) == e

\* "sqlite3_set_last_insert_rowid(dbConnection, -1);" before the step
RowidBeforeStep(e) == SetLastInsertRowid(e, -1)

nativeExecuteForLastInsertedRowIDAndResetOp(e) ==
    LET s == EngineStep(RowidBeforeStep(e)) IN
    IF NotDone(s.rc) THEN Leave(s.eng, LongOf(-1), "Expected 0 rows", 1)
    ELSE Leave(s.eng, LongOf(s.eng.rowid), "none", 1)

nativeExecuteForChangedRowsAndResetOp(e) ==
    LET s == EngineStep(e) IN
    IF NotDone(s.rc) THEN Leave(s.eng, LongOf(0), "Expected 0 rows", 1)
    ELSE Leave(s.eng, LongOf(s.eng.changes), "none", 1)

(***************************************************************************)
(* nativeExecutePragma (src SQLiteNative.cpp 270-305)                      *)
(***************************************************************************)
\* the column whose text the copy loop reads for column c:
\* "sqlite3_column_text16(statement, 0)"
PragmaTextColumn(c) == 0

\* the k-th character behind the pointer sqlite3_column_text16 returned for
\* col: the text, its terminator, and beyond that (or behind a NULL pointer)
\* whatever is there
CharBehind(col, k, g) ==
    IF k <= Len(ColumnChars(col)) THEN ColumnChars(col)[k]
    ELSE IF col.type # SQLITE_NULL /\ k = Len(ColumnChars(col)) + 1 THEN 0
    ELSE g

\* "memcpy(buffer + offset, text, sizeBytes)" for column c (from 0)
PragmaPiece(row, c, g) ==
    [k \in 1..Len(ColumnChars(row[c + 1])) |->
        CharBehind(row[PragmaTextColumn(c) + 1], k, g)]

\* the copy loop from column c on
RECURSIVE PragmaBuffer(_, _, _)
PragmaBuffer(row, c, g) ==
    IF c >= Len(row) THEN <<>>
    ELSE PragmaPiece(row, c, g) \o PragmaBuffer(row, c + 1, g)

\* the first loop: the sum of the columns' text lengths
RECURSIVE PragmaTotalLength(_, _)
PragmaTotalLength(row, c) ==
    IF c >= Len(row) THEN 0
    ELSE Len(ColumnChars(row[c + 1])) + PragmaTotalLength(row, c + 1)

nativeExecutePragmaOp(e, prepared, g) ==
    IF ~prepared THEN Out(e, NullRef, ", while compiling: ", 0, FALSE)
    ELSE LET s == EngineStep(e)
             row == hRows[s.eng.stepNo]
         IN IF s.rc = "SQLITE_ROW"
            THEN Out(EngineReset(s.eng),
                     IF PragmaTotalLength(row, 0) = 0 THEN StringOf(<<>>)
                     ELSE StringOf(PragmaBuffer(row, 0, g)),
                     "none", 1, TRUE)
            ELSE Out(EngineReset(s.eng), NullRef,
                     IF s.rc # "SQLITE_DONE" THEN EngineError ELSE "none",
                     1, TRUE)

(***************************************************************************)
(* Cursor stepping and the column getters (src SQLiteNative.cpp 451-530)   *)
(***************************************************************************)
nativeCursorStepOp(e) ==
    LET s == EngineStep(e) IN
    Out(s.eng, BoolOf(s.rc = "SQLITE_ROW"),
        IF s.rc \in {"SQLITE_ROW", "SQLITE_DONE"} THEN "none" ELSE EngineError,
        1, FALSE)

\* sqlite3_reset returns the error of the statement's failed step
nativeResetStatementOp(e) ==
    LET r == EngineReset(e) IN
    Out(r, Void, IF r.errcode # "SQLITE_OK" THEN EngineError ELSE "none", 0, TRUE)

\* maybe_throw_after_column_get
MaybeThrowAfterColumnGet(e) ==
    IF e.errcode = "SQLITE_OK" THEN "none" ELSE "Column get failed"

\* variant of the getters' first statement that leaves the error code
ErrcodeKept(e) == e

\* "sqlite3ex_clear_errcode(dbConnection);" as the getters' first statement
ErrcodeBeforeGet(e) == ClearErrcode(e)

\* a conversion of the column value that needs memory and does not get it
\* leaves SQLITE_NOMEM and yields nothing
Converted(a, oom) ==
    IF oom
    THEN [col |-> NullCol, eng |-> [a.eng EXCEPT !.errcode = "SQLITE_NOMEM"]]
    ELSE a

nativeCursorGetLongOp(e, index) ==
    LET a == ColumnAt(ErrcodeBeforeGet(e), index) IN
    Out(a.eng,
        IF a.col.type = SQLITE_NULL THEN LongOf(0) ELSE LongOf(ColumnNumber(a.col)),
        MaybeThrowAfterColumnGet(a.eng), 0, FALSE)

nativeCursorGetDoubleOp(e, index) ==
    LET a == ColumnAt(ErrcodeBeforeGet(e), index) IN
    Out(a.eng,
        IF a.col.type = SQLITE_NULL THEN DoubleOf(0)
        ELSE DoubleOf(ColumnNumber(a.col)),
        MaybeThrowAfterColumnGet(a.eng), 0, FALSE)

nativeCursorGetStringOp(e, index, oom) ==
    LET a == ColumnAt(ErrcodeBeforeGet(e), index) IN
    IF a.col.type = SQLITE_NULL
    THEN Out(a.eng, NullRef, MaybeThrowAfterColumnGet(a.eng), 0, FALSE)
    ELSE LET b == Converted(a, oom) IN
         Out(b.eng, StringOf(ColumnChars(b.col)),
             MaybeThrowAfterColumnGet(b.eng), 0, FALSE)

nativeCursorGetBlobOp(e, index, oom) ==
    LET a == ColumnAt(ErrcodeBeforeGet(e), index) IN
    IF a.col.type = SQLITE_NULL
    THEN Out(a.eng, NullRef, MaybeThrowAfterColumnGet(a.eng), 0, FALSE)
    ELSE LET b == Converted(a, oom /\ a.col.type \notin {SQLITE_TEXT, SQLITE_BLOB})
         IN Out(b.eng, ByteArrayOf(ColumnChars(b.col)),
                MaybeThrowAfterColumnGet(b.eng), 0, FALSE)

(***************************************************************************)
(* The calls: one action per native method.                                *)
(***************************************************************************)
\* the call of the method name leaves out
HelperCall(name, arg, out) ==
    /\ hPc = "idle"
    /\ hCalls < MaxHelperCalls
    /\ hPc' = "returned"
    /\ hCalls' = hCalls + 1
    /\ hName' = name
    /\ hArg' = arg
    /\ hResult' = out.result
    /\ hThrown' = out.thrown
    /\ hSteps' = out.steps
    /\ hReset' = out.reset
    /\ hStepNo' = out.eng.stepNo
    /\ hOnRow' = out.eng.onRow
    /\ connErrcode' = out.eng.errcode
    /\ connRowid' = out.eng.rowid
    /\ connChanges' = out.eng.changes
    /\ UNCHANGED <<hRows, hFailAt, hInsert>>
    /\ UNCHANGED <<cwvars, ovars, tvars>>

\* the methods that take a statement the caller has prepared and not stepped
Fresh == hStepNo = 0 /\ ~hOnRow

nativeExecute ==
    Fresh /\ HelperCall("nativeExecute", 0, nativeExecuteOp(Eng))

nativeExecuteForChangedRowCount ==
    Fresh /\ HelperCall("nativeExecuteForChangedRowCount", 0,
                        nativeExecuteForChangedRowCountOp(Eng))

nativeExecuteForLastInsertedRowId ==
    Fresh /\ HelperCall("nativeExecuteForLastInsertedRowId", 0,
                        nativeExecuteForLastInsertedRowIdOp(Eng))

nativeExecuteForLong ==
    Fresh /\ HelperCall("nativeExecuteForLong", 0, nativeExecuteForLongOp(Eng))

nativeExecuteForString ==
    Fresh /\ HelperCall("nativeExecuteForString", 0, nativeExecuteForStringOp(Eng))

nativeExecutePragma ==
    /\ Fresh
    /\ \E prepared \in BOOLEAN, g \in Garbage :
           HelperCall("nativeExecutePragma", 0,
                      nativeExecutePragmaOp(Eng, prepared, g))

nativeExecuteAndReset ==
    Fresh /\ HelperCall("nativeExecuteAndReset", 0, nativeExecuteAndResetOp(Eng))

nativeExecuteIgnoreAndReset ==
    Fresh /\ HelperCall("nativeExecuteIgnoreAndReset", 0,
                        nativeExecuteIgnoreAndResetOp(Eng))

nativeExecuteForLongAndReset ==
    /\ Fresh
    /\ \E d \in Defaults :
           HelperCall("nativeExecuteForLongAndReset", d,
                      nativeExecuteForLongAndResetOp(Eng, d))

nativeExecuteForDoubleAndReset ==
    /\ Fresh
    /\ \E d \in Defaults :
           HelperCall("nativeExecuteForDoubleAndReset", d,
                      nativeExecuteForDoubleAndResetOp(Eng, d))

nativeExecuteForStringOrNullAndReset ==
    Fresh /\ HelperCall("nativeExecuteForStringOrNullAndReset", 0,
                        nativeExecuteForStringOrNullAndResetOp(Eng))

nativeExecuteForBlobOrNullAndReset ==
    Fresh /\ HelperCall("nativeExecuteForBlobOrNullAndReset", 0,
                        nativeExecuteForBlobOrNullAndResetOp(Eng))

nativeExecuteForLastInsertedRowIDAndReset ==
    Fresh /\ HelperCall("nativeExecuteForLastInsertedRowIDAndReset", 0,
                        nativeExecuteForLastInsertedRowIDAndResetOp(Eng))

nativeExecuteForChangedRowsAndReset ==
    Fresh /\ HelperCall("nativeExecuteForChangedRowsAndReset", 0,
                        nativeExecuteForChangedRowsAndResetOp(Eng))

nativeCursorStep ==
    HelperCall("nativeCursorStep", 0, nativeCursorStepOp(Eng))

nativeResetStatement ==
    HelperCall("nativeResetStatement", 0, nativeResetStatementOp(Eng))

nativeCursorGetLong ==
    \E index \in 0..MaxHelperColumns :
        HelperCall("nativeCursorGetLong", index, nativeCursorGetLongOp(Eng, index))

nativeCursorGetDouble ==
    \E index \in 0..MaxHelperColumns :
        HelperCall("nativeCursorGetDouble", index,
                   nativeCursorGetDoubleOp(Eng, index))

nativeCursorGetString ==
    \E index \in 0..MaxHelperColumns, oom \in BOOLEAN :
        HelperCall("nativeCursorGetString", index,
                   nativeCursorGetStringOp(Eng, index, oom))

nativeCursorGetBlob ==
    \E index \in 0..MaxHelperColumns, oom \in BOOLEAN :
        HelperCall("nativeCursorGetBlob", index,
                   nativeCursorGetBlobOp(Eng, index, oom))

\* the statements the caller may prepare: up to MaxHelperRows equal rows of
\* up to MaxHelperColumns columns, a failing step, or an insert
PreparedStatement ==
    /\ \E k \in 1..MaxHelperColumns, n \in 0..MaxHelperRows :
           \E row \in [1..k -> HelperVals] : hRows' = [i \in 1..n |-> row]
    /\ hFailAt' \in 0..MaxHelperRows
    /\ hInsert' \in {0} \cup (IF hRows' = <<>> THEN InsertRowids ELSE {})
    /\ hStepNo' = 0
    /\ hOnRow' = FALSE

\* the caller goes on with the same statement
Again ==
    /\ hPc = "returned"
    /\ hCalls < MaxHelperCalls
    /\ hPc' = "idle"
    /\ UNCHANGED <<connErrcode, connRowid, connChanges, hRows, hFailAt, hInsert,
                   hStepNo, hOnRow, hName, hArg, hResult, hThrown, hSteps,
                   hReset, hCalls>>
    /\ UNCHANGED <<cwvars, ovars, tvars>>

\* the caller goes on with another statement of the same connection
NewStatement ==
    /\ hPc = "returned"
    /\ hCalls < MaxHelperCalls
    /\ hPc' = "idle"
    /\ PreparedStatement
    /\ UNCHANGED <<connErrcode, connRowid, connChanges, hName, hArg, hResult,
                   hThrown, hSteps, hReset, hCalls>>
    /\ UNCHANGED <<cwvars, ovars, tvars>>

InitHelpers ==
    /\ rows = <<>>
    /\ startPosArg = 0
    /\ requiredPos = 0
    /\ contended = FALSE
    /\ fault = "none"
    /\ InitCommon
    /\ countAllRows = FALSE
    /\ window.size = MaxWindow
    /\ connErrcode = "SQLITE_OK"
    /\ connRowid = 0
    /\ connChanges = 0
    /\ \E k \in 1..MaxHelperColumns, n \in 0..MaxHelperRows :
           \E row \in [1..k -> HelperVals] : hRows = [i \in 1..n |-> row]
    /\ hFailAt \in 0..MaxHelperRows
    /\ hInsert \in {0} \cup (IF hRows = <<>> THEN InsertRowids ELSE {})
    /\ hStepNo = 0
    /\ hOnRow = FALSE
    /\ hPc = "idle"
    /\ hName = "none"
    /\ hArg = 0
    /\ hResult = Value("none", 0, <<>>)
    /\ hThrown = "none"
    /\ hSteps = 0
    /\ hReset = FALSE
    /\ hCalls = 0
    /\ OpenIdle
    /\ ThrowIdle

NextHelpers ==
    \/ nativeExecute
    \/ nativeExecuteForChangedRowCount
    \/ nativeExecuteForLastInsertedRowId
    \/ nativeExecuteForLong
    \/ nativeExecuteForString
    \/ nativeExecutePragma
    \/ nativeExecuteAndReset
    \/ nativeExecuteIgnoreAndReset
    \/ nativeExecuteForLongAndReset
    \/ nativeExecuteForDoubleAndReset
    \/ nativeExecuteForStringOrNullAndReset
    \/ nativeExecuteForBlobOrNullAndReset
    \/ nativeExecuteForLastInsertedRowIDAndReset
    \/ nativeExecuteForChangedRowsAndReset
    \/ nativeCursorStep
    \/ nativeResetStatement
    \/ nativeCursorGetLong
    \/ nativeCursorGetDouble
    \/ nativeCursorGetString
    \/ nativeCursorGetBlob
    \/ Again
    \/ NewStatement

SpecHelpers == InitHelpers /\ [][NextHelpers]_vars

(***************************************************************************)
(* Notions used by the properties below.                                   *)
(***************************************************************************)
Returned == pc = "returned"

\* the call went through the loop (window set-up succeeded)
LoopReturned == Returned /\ fault = "none"

NoError == exception = "none"

\* space one cursor row takes in the window: directory plus payloads
ColSpace(col) ==
    IF col.type = SQLITE_TEXT THEN Len(col.val) + 1
    ELSE IF col.type = SQLITE_BLOB THEN Len(col.val) ELSE 0

RECURSIVE RowPayload(_, _)
RowPayload(row, i) ==
    IF i > NumColumns THEN 0 ELSE ColSpace(row[i]) + RowPayload(row, i + 1)

RowSpace(row) == NumColumns + RowPayload(row, 1)

\* space of the cursor rows with absolute indices from..to
RECURSIVE RangeSpace(_, _)
RangeSpace(from, to) ==
    IF from > to THEN 0 ELSE RowSpace(rows[from + 1]) + RangeSpace(from + 1, to)

FitsAlone(i) == RowSpace(rows[i + 1]) <= window.size

\* the window capacity in rows for this result: how many leading rows fit
RowCapacity ==
    CHOOSE c \in 0..Len(rows) :
        /\ RangeSpace(0, c - 1) <= window.size
        /\ c < Len(rows) => RangeSpace(0, c) > window.size

\* the window holds the cursor row with absolute index i at the slot the
\* returned start index says it is at
HoldsRow(i) ==
    /\ result[1] <= i
    /\ i < result[1] + NumRows(window)
    /\ \A c \in 1..NumColumns : window.rows[i - result[1] + 1][c].src = i

HasBadColumn(row) == \E c \in 1..NumColumns : row[c].type = UnknownType

\* the first column with an unsupported type tag
FirstBad(row) ==
    CHOOSE c \in 1..NumColumns :
        /\ row[c].type = UnknownType
        /\ \A d \in 1..(c - 1) : row[d].type # UnknownType

RECURSIVE PayloadBefore(_, _, _)
PayloadBefore(row, i, stop) ==
    IF i >= stop THEN 0 ELSE ColSpace(row[i]) + PayloadBefore(row, i + 1, stop)

\* directory and all columns before the first unsupported one fit after `used`
ReachesBad(row, used) ==
    /\ HasBadColumn(row)
    /\ used + NumColumns + PayloadBefore(row, 1, FirstBad(row)) <= window.size

\* the latest transition was a loop iteration that got a row
RowStep == pc = "loop" /\ stmtPos' = stmtPos + 1 /\ lastOutcome' = "SQLITE_ROW"

(***************************************************************************)
(* C1 (as stated): on a call without error and with                        *)
(* 0 <= startPos <= requiredPos < N, whenever the rows startPos..          *)
(* requiredPos do not all fit in the window, the window on return holds    *)
(* the row requiredPos -- for every capacity and every mix of row sizes.   *)
(***************************************************************************)
C1_Case ==
    /\ LoopReturned
    /\ NoError
    /\ startPosArg <= requiredPos
    /\ requiredPos < Len(rows)
    /\ RangeSpace(startPosArg, requiredPos) > window.size

C1_AsStated == C1_Case => HoldsRow(requiredPos)

(***************************************************************************)
(* C1 (amended): the same, provided each of the rows startPos..requiredPos *)
(* fits into an empty window on its own.                                   *)
(***************************************************************************)
C1_RequiredRowHeld ==
    (C1_Case /\ \A i \in startPosArg..requiredPos : FitsAlone(i))
        => HoldsRow(requiredPos)

C1_Witness ==
    /\ C1_Case
    /\ \A i \in startPosArg..requiredPos : FitsAlone(i)
    /\ result[1] > startPosArg
    /\ HoldsRow(requiredPos)

C3_ExhaustiveCount ==
    (LoopReturned /\ countAllRows /\ NoError) => result[2] = Len(rows)

C3_Witness ==
    /\ LoopReturned /\ countAllRows /\ NoError
    /\ windowFull
    /\ NumRows(window) = 0
    /\ Len(rows) >= 2
    /\ result[2] = Len(rows)

(***************************************************************************)
(* C4 (as stated): with startPos = 0, requiredPos = 0, no exhaustive count *)
(* and no error, totalRowsSeen is N when the N rows fit (N <= C) and       *)
(* min(N, C) when they do not (N > C), C being the capacity in rows.       *)
(***************************************************************************)
C4_Case ==
    /\ LoopReturned /\ NoError
    /\ startPosArg = 0 /\ requiredPos = 0 /\ ~countAllRows

Min(a, b) == IF a <= b THEN a ELSE b

C4_AsStated ==
    C4_Case =>
        result[2] = IF Len(rows) <= RowCapacity
                    THEN Len(rows) ELSE Min(Len(rows), RowCapacity)

(***************************************************************************)
(* C4 (amended): ... and C + 1 when they do not: the C rows stored and the *)
(* one row that did not fit, which is counted as seen.                     *)
(***************************************************************************)
C4_RowsSeenFirstPage ==
    C4_Case =>
        result[2] = IF Len(rows) <= RowCapacity
                    THEN Len(rows) ELSE RowCapacity + 1

C4_Witness ==
    /\ C4_Case
    /\ RowCapacity >= 1
    /\ Len(rows) > RowCapacity + 1
    /\ result[2] = RowCapacity + 1

(***************************************************************************)
(* C5 (as stated): once the cursor has reported Busy or Locked 51 times in *)
(* a row the call has failed with the lock-timeout error.                  *)
(***************************************************************************)
C5_AsStated ==
    (lastOutcome \in LockOutcomes /\ streak >= 51)
        => exception = "retrycount exceeded"

(***************************************************************************)
(* C5 (amended): the call fails with the lock-timeout error on the 52nd    *)
(* consecutive Busy/Locked outcome and on no earlier one; a row that       *)
(* follows 51 of them is processed.                                        *)
(***************************************************************************)
C5_TimeoutOn52nd ==
    /\ (lastOutcome \in LockOutcomes /\ streak >= 52)
           => (exception = "retrycount exceeded" /\ gotException)
    /\ exception = "retrycount exceeded"
           => (lastOutcome \in LockOutcomes /\ streak = 52)
    /\ (lastOutcome \in LockOutcomes /\ streak <= 51 /\ pc = "loop")
           => ~gotException

C5_Witness ==
    /\ Returned
    /\ exception = "retrycount exceeded"
    /\ streak = 52

C5_RowAfter51 == lastOutcome = "SQLITE_ROW" /\ streak = 51 /\ NoError

(***************************************************************************)
(* C6: a row that follows k <= 49 consecutive Busy/Locked outcomes is      *)
(* processed without a lock timeout: it is counted, the retry counter is   *)
(* cleared, and it is skipped or encoded by the rule that applies to any   *)
(* row; k <= 49 such outcomes never raise an error.                        *)
(***************************************************************************)
C6_RowAfterShortStreak ==
    /\ []((lastOutcome \in LockOutcomes /\ streak <= 49) => NoError)
    /\ [][(RowStep /\ lastOutcome \in LockOutcomes /\ streak <= 49) =>
            /\ totalRows' = totalRows + 1
            /\ retryCount' = 0
            /\ streak' = streak
            /\ exception' # "retrycount exceeded"
            /\ (encodes' = 0) <=> (startPos >= totalRows + 1 \/ windowFull)
            /\ encodes' = 0 => (window' = window /\ addedRows' = addedRows)
            /\ (encodes' > 0 /\ firstCpr' = CPR_OK) =>
                   (addedRows' = addedRows + 1 /\ NumRows(window') = addedRows')
          ]_vars

C6_Witness ==
    /\ lastOutcome = "SQLITE_ROW"
    /\ streak = 49
    /\ NoError
    /\ encodes = 1
    /\ addedRows >= 1

(***************************************************************************)
(* C7 (as stated): on every return path, the failure to clear the window   *)
(* or to set its column count included, sqlite3_reset has been called.     *)
(***************************************************************************)
C7_AsStated == Returned => resetCalled

(***************************************************************************)
(* C7 (amended): on every return path that follows the loop the statement  *)
(* has been reset; when the initial clear or column-count set fails the    *)
(* call returns without any cursor step and without calling sqlite3_reset. *)
(***************************************************************************)
C7_ResetAfterLoop ==
    Returned =>
        /\ resetCalled <=> fault = "none"
        /\ resetCalled => (stmtState = "idle" /\ stmtPos = 0)
        /\ ~resetCalled => (lastOutcome = "none" /\ stmtState = "idle"
                            /\ ~NoError)

C7_Witness ==
    /\ Returned
    /\ resetCalled
    /\ exception = "engine error"
    /\ totalRows >= 1

(***************************************************************************)
(* C8: an engine error, an encoder error and a lock timeout are not        *)
(* retried: the step on which one occurs is the last step of the call, no  *)
(* row is encoded afterwards and an error is pending; Done is likewise the *)
(* last step and leaves no error pending.                                  *)
(***************************************************************************)
C8_NoRetryAfterFatal ==
    /\ [](gotException => ~NoError)
    /\ []((pc = "loop" /\ ~NoError) => gotException)
    /\ [](done => (lastOutcome = "SQLITE_DONE" /\ NoError))
    /\ [][(pc = "loop" /\ (gotException \/ done)) =>
            /\ pc' = "returned"
            /\ window' = window
            /\ lastOutcome' = lastOutcome
            /\ streak' = streak
            /\ totalRows' = totalRows
            /\ addedRows' = addedRows
            /\ exception' = exception
          ]_vars

C8_Witness ==
    /\ Returned
    /\ gotException
    /\ lastOutcome = "SQLITE_ERROR"
    /\ totalRows >= 1
    /\ totalRows < Len(rows)

(***************************************************************************)
(* C9 (as stated): whenever copyRow is given a row with a column of an     *)
(* unsupported type it raises the error, the call is aborted and the       *)
(* window's row count is what it was before.                               *)
(***************************************************************************)
C9_AsStated ==
    [][(RowStep /\ encodes' > 0 /\ HasBadColumn(rows[stmtPos + 1])) =>
            /\ gotException'
            /\ exception' = "Unknown column type when filling window"
            /\ NumRows(window') = NumRows(window)
      ]_vars

(***************************************************************************)
(* C9 (amended): when copyRow reaches a column of an unsupported type --   *)
(* the row's field directory and every earlier column fit -- it raises the *)
(* error and returns CPR_ERROR after releasing the row: the row count is   *)
(* unchanged, no value of that row is visible, the row is not counted as   *)
(* stored and the call is aborted.  When the directory or an earlier       *)
(* column does not fit copyRow returns CPR_FULL and raises nothing.        *)
(***************************************************************************)
C9_UnknownTypeAborts ==
    [][(RowStep /\ encodes' > 0) =>
         LET row == rows[stmtPos + 1]
             cpr == CopyRow(window, row, numColumns, startPos, addedRows, stmtPos)
         IN /\ ReachesBad(row, window.used) =>
                 /\ cpr.result = CPR_ERROR /\ cpr.thrown
                 /\ NumRows(cpr.window) = NumRows(window)
                 /\ firstCpr' = CPR_ERROR
                 /\ encodes' = 1
                 /\ gotException'
                 /\ exception' = "Unknown column type when filling window"
                 /\ addedRows' = addedRows
                 /\ NumRows(window') = addedRows'
                 /\ \A k \in 1..NumRows(window') : \A c \in 1..NumColumns :
                        window'.rows[k][c].src # stmtPos
            /\ (HasBadColumn(row) /\ ~ReachesBad(row, window.used)) =>
                 (cpr.result = CPR_FULL /\ ~cpr.thrown)
            /\ (restarted' /\ ReachesBad(row, 0)) =>
                 (gotException' /\ NumRows(window') = 0 /\ addedRows' = 0
                  /\ exception' = "Unknown column type when filling window")
      ]_vars

C9_Witness ==
    /\ pc = "loop"
    /\ lastOutcome = "SQLITE_ROW"
    /\ firstCpr = CPR_ERROR
    /\ gotException
    /\ addedRows >= 1
    /\ NumRows(window) = addedRows

(***************************************************************************)
(* C10: overflow recovery.  When the first encoding of a row reports Full, *)
(* at least one row is stored and startPos + addedRows <= requiredPos, the *)
(* window is cleared and its column count set again, startPos grows by     *)
(* addedRows, addedRows restarts from 0 and the same row is encoded once   *)
(* more; totalRows counts the row once.  No recovery otherwise, and never  *)
(* more than two encodings of a row.                                       *)
(***************************************************************************)
C10_OverflowRecovery ==
    [][(RowStep /\ encodes' > 0) =>
         LET recover == /\ firstCpr' = CPR_FULL
                        /\ addedRows > 0
                        /\ startPos + addedRows <= requiredPos
         IN /\ restarted' <=> recover
            /\ totalRows' = totalRows + 1
            /\ encodes' <= 2
            /\ recover =>
                 /\ encodes' = 2
                 /\ startPos' = startPos + addedRows
                 /\ addedRows' \in {0, 1}
                 /\ NumRows(window') = addedRows'
                 /\ window'.numColumns = numColumns
                 /\ window'.used = IF addedRows' = 1
                                   THEN RowSpace(rows[stmtPos + 1])
                                   ELSE window'.used
                 /\ \A k \in 1..NumRows(window') : \A c \in 1..NumColumns :
                        window'.rows[k][c].src = stmtPos
            /\ ~recover =>
                 /\ encodes' = 1
                 /\ startPos' = startPos
      ]_vars

C10_Witness ==
    /\ lastOutcome = "SQLITE_ROW"
    /\ restarted
    /\ encodes = 2
    /\ addedRows = 1
    /\ startPos > startPosArg
    /\ startPos <= requiredPos

(***************************************************************************)
(* C11: when the encoding of a row ends with Full (after the recovery, if  *)
(* there was one) the window is marked full.  From then until the call     *)
(* returns, the stored-row count, the start position and the window        *)
(* contents do not change and no row is encoded, even a row that would     *)
(* fit; without countAllRows the loop ends with no further step of the     *)
(* cursor, with countAllRows the stepping goes on while rows come.         *)
(***************************************************************************)
C11_FullWindowFrozen ==
    [][ /\ (pc = "loop" /\ lastOutcome' = "SQLITE_ROW" /\ lastCpr' = CPR_FULL)
             => windowFull'
        /\ (pc = "loop" /\ windowFull) =>
             /\ windowFull'
             /\ addedRows' = addedRows
             /\ startPos' = startPos
             /\ window' = window
             /\ pc' = "loop" => encodes' = 0 /\ lastCpr' = "none"
             /\ pc' = "returned" => result' = <<startPos, totalRows>>
             /\ ~countAllRows =>
                  /\ pc' = "returned"
                  /\ totalRows' = totalRows
                  /\ lastOutcome' = lastOutcome
             /\ (countAllRows /\ ~done /\ ~gotException) => pc' = "loop"
      ]_vars

\* full, counting on, and the row just skipped would have fitted
C11_Witness ==
    /\ pc = "loop"
    /\ countAllRows
    /\ windowFull
    /\ lastOutcome = "SQLITE_ROW"
    /\ encodes = 0
    /\ stmtPos > startPos
    /\ addedRows > 0
    /\ window.used + RowSpace(rows[stmtPos]) <= window.size

(***************************************************************************)
(* C12: every row the cursor yields increments totalRows exactly once,     *)
(* whether the row is encoded, skipped or does not fit, and no other       *)
(* outcome changes totalRows; a row whose absolute index is below startPos *)
(* is never encoded, so no stored row comes from before startPos.          *)
(***************************************************************************)
C12_EveryRowCountedOnce ==
    /\ [](pc = "loop" => totalRows = stmtPos)
    /\ [](\A k \in 1..NumRows(window) : \A c \in 1..NumColumns :
              window.rows[k][c].src >= 0 => window.rows[k][c].src >= startPos)
    /\ [][ pc = "loop" =>
             /\ RowStep => totalRows' = totalRows + 1
             /\ ~RowStep => totalRows' = totalRows
             /\ (RowStep /\ stmtPos < startPos) =>
                  /\ encodes' = 0
                  /\ window' = window
                  /\ addedRows' = addedRows
      ]_vars

\* a row below startPos has been skipped, rows at and after it were encoded
\* or failed to fit, and each was counted
C12_Witness ==
    /\ Returned
    /\ NoError
    /\ startPosArg > 0
    /\ Len(rows) > startPosArg + 1
    /\ windowFull
    /\ NumRows(window) > 0
    /\ result[2] = Len(rows)

\* the latest transition was a loop iteration that got Busy or Locked
LockStep ==
    /\ pc = "loop"
    /\ lastOutcome' \in LockOutcomes
    /\ <<lastOutcome, streak, retryCount, gotException>>' #
           <<lastOutcome, streak, retryCount, gotException>>

(***************************************************************************)
(* C13: a Busy or Locked outcome that does not time out changes nothing    *)
(* of the pagination state: totalRows, addedRows, startPos, the full flag  *)
(* and the window stay as they were, the cursor does not advance, only the *)
(* retry counter changes (by one), and the call stays in the loop so that  *)
(* the next action is another step of the same cursor.                     *)
(***************************************************************************)
C13_LockStepFrame ==
    [][ (LockStep /\ ~gotException') =>
          /\ UNCHANGED <<totalRows, addedRows, startPos, windowFull, window>>
          /\ UNCHANGED <<stmtPos, done, exception, result>>
          /\ retryCount' = retryCount + 1
          /\ pc' = "loop"
          /\ LoopCond(gotException', windowFull', countAllRows)
      ]_vars

\* Busy/Locked outcomes in the middle of a window with rows stored
C13_Witness ==
    /\ pc = "loop"
    /\ lastOutcome \in LockOutcomes
    /\ retryCount = 3
    /\ ~gotException
    /\ addedRows > 0
    /\ totalRows = stmtPos
    /\ stmtPos < Len(rows)

(***************************************************************************)
(* C14: every Row outcome sets the retry counter to zero, so the counter   *)
(* is the length of the current run of consecutive Busy/Locked outcomes    *)
(* and not their total; a run of at most RETRY_LIMIT - 1 of them never     *)
(* times out, whatever runs came before it in the call.                    *)
(***************************************************************************)
C14_OnlyConsecutiveCount ==
    /\ (pc = "loop" /\ lastOutcome = "SQLITE_ROW") => retryCount = 0
    /\ (pc = "loop" /\ lastOutcome \in LockOutcomes /\ ~gotException)
          => retryCount = streak
    /\ (lastOutcome \in LockOutcomes /\ streak <= RETRY_LIMIT - 1)
          => exception # "retrycount exceeded"

\* a second run of RETRY_LIMIT - 1 Busy/Locked after a row that ended a first
\* one: 2 * (RETRY_LIMIT - 1) in total, and no timeout
C14_Witness ==
    /\ pc = "loop"
    /\ longStreakEnded
    /\ lastOutcome \in LockOutcomes
    /\ streak = RETRY_LIMIT - 1
    /\ NoError
    /\ ~gotException

(***************************************************************************)
(* C15: every call returns, for every finite cursor and every interleaving *)
(* of Busy/Locked outcomes, Busy for ever included: a row is encoded at    *)
(* most twice, the retry counter never passes the ceiling, the cursor      *)
(* never moves beyond its last row, and the call eventually returns.       *)
(***************************************************************************)
C15_EveryCallReturns ==
    /\ <>(pc = "returned")
    /\ [](encodes <= 2 /\ retryCount <= RETRY_LIMIT + 1 /\ stmtPos <= Len(rows))

\* the call that met Busy on every step has returned, by the timeout
C15_Witness ==
    /\ Returned
    /\ exception = "retrycount exceeded"
    /\ streak = RETRY_LIMIT + 2
    /\ totalRows = 0
    /\ Len(rows) > 0

\* the first copyRow of the iteration that encodes the cursor's current row
FirstCopy == CopyRow(window, rows[stmtPos + 1], numColumns, startPos, addedRows,
                     stmtPos)

(***************************************************************************)
(* C16: copyRow returns Full and writes nothing when the field directory   *)
(* of the row cannot be allocated; when a column's payload does not fit it *)
(* releases the row and returns Full.  Either way the rows in the window   *)
(* after the call are the rows before it, and the loop does not count the  *)
(* row as stored.                                                          *)
(***************************************************************************)
C16_FullLeavesRowsAlone ==
    [][ (RowStep /\ encodes' > 0) =>
          /\ AllocRow(window).status # OK =>
               /\ FirstCopy.result = CPR_FULL
               /\ FirstCopy.window = window
          /\ FirstCopy.result = CPR_FULL =>
               /\ FirstCopy.window.rows = window.rows
               /\ firstCpr' = CPR_FULL
          /\ (lastCpr' = CPR_FULL /\ ~restarted') =>
               /\ window'.rows = window.rows
               /\ addedRows' = addedRows
          /\ (lastCpr' = CPR_FULL /\ restarted') =>
               /\ window'.rows = <<>>
               /\ addedRows' = 0
          /\ NumRows(window') = addedRows'
          /\ lastCpr' = CPR_OK <=> addedRows' = (IF restarted' THEN 0 ELSE addedRows) + 1
      ]_vars

\* a payload did not fit after the row's field directory had been allocated:
\* the row was released and the rows stored before are still there
C16_Witness ==
    /\ pc = "loop"
    /\ lastOutcome = "SQLITE_ROW"
    /\ lastCpr = CPR_FULL
    /\ ~restarted
    /\ addedRows > 0
    /\ NumRows(window) = addedRows
    /\ window.used >= RangeSpace(startPos, startPos + addedRows - 1) + NumColumns

\* the window shows nothing of what was in it before the call
NoStaleRow ==
    \A k \in 1..NumRows(window) : \A c \in 1..window.numColumns :
        window.rows[k][c].src # StaleRow[1].src

(***************************************************************************)
(* C17: every call first clears the window and sets its column count, so   *)
(* no row left by an earlier call is visible once the set-up is done or    *)
(* after the call; when the clear or the set fails, the call raises an     *)
(* error, makes no step of the cursor and stores no row.                   *)
(***************************************************************************)
C17_WindowSetUpFirst ==
    /\ (pc # "entry" /\ fault = "none") =>
          /\ NoStaleRow
          /\ window.numColumns = NumColumns
          /\ NumRows(window) = addedRows
    /\ (pc # "entry" /\ fault \in {"clear", "setNumColumns"}) =>
          /\ Returned
          /\ exception = (IF fault = "clear"
                          THEN "Failed to clear the cursor window"
                          ELSE "Failed to set the cursor window column count")
          /\ lastOutcome = "none"
          /\ stmtPos = 0
          /\ stmtState = "idle"
          /\ totalRows = 0
          /\ addedRows = 0
          /\ \A k \in 1..NumRows(window) : \A c \in 1..window.numColumns :
                 window.rows[k][c].src < 0

\* a call on a window that held a row of an earlier call has returned with
\* rows of its own
C17_Witness ==
    /\ Returned
    /\ NoError
    /\ callNo = 1
    /\ NumRows(window) > 1
    /\ NoStaleRow

(***************************************************************************)
(* C18: a call whose startPos is at or beyond the number of rows N of the  *)
(* result, and which meets no fatal outcome, does not fail: it stores no   *)
(* row and returns (startPos, N).                                          *)
(***************************************************************************)
C18_StartBeyondEnd ==
    (LoopReturned /\ NoError /\ startPosArg >= Len(rows)) =>
        /\ done
        /\ NumRows(window) = 0
        /\ addedRows = 0
        /\ ~windowFull
        /\ result = <<startPosArg, Len(rows)>>

\* startPos is exactly N, with rows to walk over
C18_Witness ==
    /\ LoopReturned
    /\ NoError
    /\ Len(rows) > 1
    /\ startPosArg = Len(rows)
    /\ result = <<startPosArg, Len(rows)>>

(***************************************************************************)
(* C19: a call made again with the same startPos, requiredPos and          *)
(* countAllRows on the same window, the result unchanged and no lock       *)
(* contention, returns the same (windowStartRowIndex, totalRowsSeen) and   *)
(* leaves the same window contents as the call before it, and raises what  *)
(* it raised: nothing the earlier call left behind influences the later.   *)
(***************************************************************************)
C19_SecondCallSame ==
    (/\ callNo > 1
     /\ Returned
     /\ prev.exception # "engine error"
     /\ exception # "engine error") =>
        /\ result = prev.result
        /\ window.rows = prev.rows
        /\ window.used = prev.used
        /\ exception = prev.exception

\* the second call has returned a page that needed an overflow recovery
C19_Witness ==
    /\ callNo = 2
    /\ Returned
    /\ NoError
    /\ prev.exception = "none"
    /\ result[1] > startPosArg
    /\ NumRows(window) > 0
    /\ result = prev.result

(***************************************************************************)
(* C20: no failure is silently swallowed: whenever an engine or window     *)
(* operation of the call returned a failure status (the window clear and   *)
(* column-count set of the overflow recovery included), the call ends with *)
(* an error raised.  Busy/Locked below the retry ceiling and a full window *)
(* are the recoverable conditions and are not counted as failures.         *)
(***************************************************************************)
C20_NoFailureSwallowed ==
    (Returned /\ failedOps # {}) => exception # "none"

(***************************************************************************)
(* Scalar helpers and column getters                                       *)
(***************************************************************************)
HelperReturned == hPc = "returned"

\* the helpers that end with sqlite3_reset
AndResetHelpers ==
    {"nativeExecuteAndReset", "nativeExecuteIgnoreAndReset",
     "nativeExecuteForLongAndReset", "nativeExecuteForDoubleAndReset",
     "nativeExecuteForStringOrNullAndReset", "nativeExecuteForBlobOrNullAndReset",
     "nativeExecuteForLastInsertedRowIDAndReset",
     "nativeExecuteForChangedRowsAndReset"}

\* the helpers built on executeNonQuery and executeOneRowQuery
PlainHelpers ==
    {"nativeExecute", "nativeExecuteForChangedRowCount",
     "nativeExecuteForLastInsertedRowId", "nativeExecuteForLong",
     "nativeExecuteForString"}

\* the outcome of the call's first step
FirstStep == StepResult(1)

(***************************************************************************)
(* C21 (as stated): every scalar execution helper, the ...AndReset         *)
(* variants and nativeExecute, nativeExecuteForLong,                       *)
(* nativeExecuteForString, nativeExecuteForChangedRowCount and             *)
(* nativeExecuteForLastInsertedRowId alike, has reset the statement when   *)
(* it returns, on every path.                                              *)
(***************************************************************************)
C21_AsStated ==
    (HelperReturned /\ hName \in AndResetHelpers \cup PlainHelpers) => hReset

(***************************************************************************)
(* C21 (amended): every ...AndReset helper has reset the statement when it *)
(* returns, on every path, with or without an exception; the helpers       *)
(* without AndReset in their name make their one step and return without   *)
(* a reset.                                                                *)
(***************************************************************************)
C21_AndResetHelpersReset ==
    /\ (HelperReturned /\ hName \in AndResetHelpers) =>
          /\ hReset
          /\ hStepNo = 0
          /\ ~hOnRow
    /\ (HelperReturned /\ hName \in PlainHelpers) =>
          /\ ~hReset
          /\ hSteps = 1
          /\ hStepNo = 1

\* an error path that comes after the second step
C21_Witness ==
    /\ HelperReturned
    /\ hName = "nativeExecuteForBlobOrNullAndReset"
    /\ hThrown = "Got more than one row"
    /\ hSteps = 2
    /\ hReset

\* the helpers that expect no row at all
ZeroRowHelpers ==
    {"nativeExecuteAndReset", "nativeExecuteForChangedRowsAndReset",
     "nativeExecuteForLastInsertedRowIDAndReset", "nativeExecute",
     "nativeExecuteForChangedRowCount", "nativeExecuteForLastInsertedRowId"}

(***************************************************************************)
(* C22: the helpers that expect exactly zero rows (nativeExecuteAndReset,  *)
(* nativeExecuteForChangedRowsAndReset,                                    *)
(* nativeExecuteForLastInsertedRowIDAndReset and the callers of            *)
(* executeNonQuery) raise an error when the first step yields a row, raise *)
(* none when the first step reports Done, and make exactly one step.       *)
(***************************************************************************)
C22_ZeroRowsExpected ==
    (HelperReturned /\ hName \in ZeroRowHelpers) =>
        /\ hSteps = 1
        /\ FirstStep = "SQLITE_ROW" =>
              hThrown = (IF hName \in PlainHelpers THEN QueriesMessage
                         ELSE "Expected 0 rows")
        /\ FirstStep = "SQLITE_DONE" => hThrown = "none"
        /\ FirstStep = "SQLITE_ERROR" => hThrown # "none"

\* a query was run through an execute-only helper
C22_Witness ==
    /\ HelperReturned
    /\ hName = "nativeExecuteForChangedRowsAndReset"
    /\ FirstStep = "SQLITE_ROW"
    /\ hThrown = "Expected 0 rows"
    /\ hSteps = 1

\* the value the helper hName returns for the single column col
ValueOf(col) ==
    IF hName = "nativeExecuteForLongAndReset" THEN LongOf(ColumnNumber(col))
    ELSE IF hName = "nativeExecuteForDoubleAndReset" THEN DoubleOf(ColumnNumber(col))
    ELSE IF hName = "nativeExecuteForStringOrNullAndReset"
    THEN StringOf(ColumnChars(col))
    ELSE ByteArrayOf(ColumnChars(col))

\* the first step yields a row of one column and the second reports Done
OneRowOneColumn ==
    /\ FirstStep = "SQLITE_ROW"
    /\ Len(hRows[1]) = 1
    /\ StepResult(2) = "SQLITE_DONE"

\* what the one-row-one-column helpers raise on a row
RaisedOnRow ==
    IF Len(hRows[1]) # 1 THEN "Expected exactly one column"
    ELSE IF StepResult(2) # "SQLITE_DONE" THEN "Got more than one row"
    ELSE "none"

(***************************************************************************)
(* C23: nativeExecuteForLongAndReset and nativeExecuteForDoubleAndReset    *)
(* succeed only when the first step yields a row of exactly one column and *)
(* the second step reports Done (they return the column's value) or when   *)
(* the first step reports Done (they return the caller's default).  A row  *)
(* with another column count raises 'Expected exactly one column', a       *)
(* second row 'Got more than one row', an engine error on the first step   *)
(* 'Error evaluating'.                                                     *)
(***************************************************************************)
C23_OneRowOneColumn ==
    (/\ HelperReturned
     /\ hName \in {"nativeExecuteForLongAndReset", "nativeExecuteForDoubleAndReset"})
    =>
        /\ hThrown = "none" <=> (OneRowOneColumn \/ FirstStep = "SQLITE_DONE")
        /\ OneRowOneColumn =>
              /\ hResult = ValueOf(hRows[1][1])
              /\ hRows[1][1].type = SQLITE_INTEGER => hResult.num = hRows[1][1].val
              /\ hSteps = 2
        /\ FirstStep = "SQLITE_DONE" =>
              /\ hResult.num = hArg
              /\ hSteps = 1
        /\ FirstStep = "SQLITE_ROW" => hThrown = RaisedOnRow
        /\ FirstStep = "SQLITE_ERROR" => hThrown = "Error evaluating"

\* a single integer column of a single row, returned instead of the default
C23_Witness ==
    /\ HelperReturned
    /\ hName = "nativeExecuteForLongAndReset"
    /\ hThrown = "none"
    /\ hSteps = 2
    /\ hRows[1][1] = IntCol
    /\ hResult = LongOf(7)
    /\ hArg = -3

(***************************************************************************)
(* C24: nativeExecuteForStringOrNullAndReset and                           *)
(* nativeExecuteForBlobOrNullAndReset return null and raise nothing when   *)
(* the first step reports Done; when the first step yields a row they      *)
(* behave like the one-row-one-column helpers: the column's text or bytes  *)
(* are returned for a single column followed by Done, another column count *)
(* or a second row raises.                                                 *)
(***************************************************************************)
C24_OptionalSingleValue ==
    (/\ HelperReturned
     /\ hName \in {"nativeExecuteForStringOrNullAndReset",
                   "nativeExecuteForBlobOrNullAndReset"})
    =>
        /\ FirstStep = "SQLITE_DONE" =>
              /\ hResult = NullRef
              /\ hThrown = "none"
              /\ hSteps = 1
        /\ FirstStep = "SQLITE_ROW" =>
              /\ hThrown = RaisedOnRow
              /\ Len(hRows[1]) = 1 =>
                    /\ hResult = ValueOf(hRows[1][1])
                    /\ hRows[1][1].type = SQLITE_TEXT =>
                          hResult.chars = hRows[1][1].val
                    /\ hSteps = 2
              /\ Len(hRows[1]) # 1 => hResult = NullRef /\ hSteps = 1
        /\ hThrown = "none" <=> (OneRowOneColumn \/ FirstStep = "SQLITE_DONE")

\* no row: null, and no error
C24_Witness ==
    /\ HelperReturned
    /\ hName = "nativeExecuteForStringOrNullAndReset"
    /\ FirstStep = "SQLITE_DONE"
    /\ hResult = NullRef
    /\ hThrown = "none"
    /\ hReset

\* the texts of the columns c.. (from 0) of a row, one after another
RECURSIVE ConcatColumns(_, _)
ConcatColumns(row, c) ==
    IF c >= Len(row) THEN <<>>
    ELSE ColumnChars(row[c + 1]) \o ConcatColumns(row, c + 1)

(***************************************************************************)
(* C25: for a statement that yields a row of k columns,                    *)
(* nativeExecutePragma returns the concatenation, in column order 0..k-1,  *)
(* of the text of every column of that row, and the length of the result   *)
(* is the sum of the columns' text lengths, for every k >= 1 and every     *)
(* combination of column texts.                                            *)
(***************************************************************************)
C25_PragmaConcatenation ==
    (/\ HelperReturned
     /\ hName = "nativeExecutePragma"
     /\ hThrown = "none"
     /\ FirstStep = "SQLITE_ROW")
    =>
        /\ hResult.kind = "string"
        /\ Len(hResult.chars) = PragmaTotalLength(hRows[1], 0)
        /\ hResult.chars = ConcatColumns(hRows[1], 0)

(***************************************************************************)
(* C28: nativeExecuteForLastInsertedRowIDAndReset returns -1 whenever the  *)
(* statement it executes inserts no row, whatever the connection's         *)
(* history: after earlier successful inserts on the connection a           *)
(* statement that is not an insert still yields -1, and so does a          *)
(* statement that fails; an insert yields the rowid it inserted.           *)
(***************************************************************************)
C28_NoInsertYieldsMinusOne ==
    (HelperReturned /\ hName = "nativeExecuteForLastInsertedRowIDAndReset") =>
        /\ (hInsert = 0 \/ FirstStep # "SQLITE_DONE") => hResult = LongOf(-1)
        /\ (hInsert > 0 /\ FirstStep = "SQLITE_DONE") =>
              /\ hResult = LongOf(hInsert)
              /\ hThrown = "none"
        /\ hThrown = "none" <=> FirstStep = "SQLITE_DONE"

\* the second call on a connection whose last insert rowid was 5: the
\* statement inserts nothing and completes
C28_Witness ==
    /\ HelperReturned
    /\ hName = "nativeExecuteForLastInsertedRowIDAndReset"
    /\ hCalls = 2
    /\ connChanges = 1
    /\ hInsert = 0
    /\ FirstStep = "SQLITE_DONE"
    /\ hResult = LongOf(-1)
    /\ hThrown = "none"

Getters ==
    {"nativeCursorGetLong", "nativeCursorGetDouble", "nativeCursorGetString",
     "nativeCursorGetBlob"}

\* the getter's index names a column of the statement's current row
ColumnInRange == hOnRow /\ hArg < Len(hRows[hStepNo])

\* a getter is being called
GetterCall == hPc = "idle" /\ hPc' = "returned" /\ hName' \in Getters

(***************************************************************************)
(* C29: the column getters nativeCursorGetLong/Double/String/Blob clear    *)
(* the connection's error code before they read, so an error code left by  *)
(* an earlier operation never makes a getter raise: a getter raises if and *)
(* only if the error code is not OK after its own column read.  For a NULL *)
(* column the getters return 0, 0.0 or null.                               *)
(***************************************************************************)
C29_GettersClearErrcode ==
    /\ [](HelperReturned /\ hName \in Getters =>
            /\ hThrown = "none" <=> connErrcode = "SQLITE_OK"
            /\ hThrown # "none" => hThrown = "Column get failed"
            /\ connErrcode \in {"SQLITE_OK", "SQLITE_RANGE", "SQLITE_NOMEM"}
            /\ ~ColumnInRange => connErrcode = "SQLITE_RANGE"
            /\ (ColumnInRange /\ hRows[hStepNo][hArg + 1].type = SQLITE_NULL) =>
                  /\ hThrown = "none"
                  /\ hResult = (IF hName = "nativeCursorGetLong" THEN LongOf(0)
                                ELSE IF hName = "nativeCursorGetDouble"
                                THEN DoubleOf(0) ELSE NullRef))
    /\ [][(/\ GetterCall
           /\ connErrcode # "SQLITE_OK"
           /\ ColumnInRange'
           /\ hName' \in {"nativeCursorGetLong", "nativeCursorGetDouble"})
          => (hThrown' = "none" /\ connErrcode' = "SQLITE_OK")]_vars

\* the step before left SQLITE_ROW as the connection's error code, and the
\* getter read a NULL column without raising
C29_Witness ==
    /\ HelperReturned
    /\ hName = "nativeCursorGetLong"
    /\ ColumnInRange
    /\ hRows[hStepNo][hArg + 1].type = SQLITE_NULL
    /\ hResult = LongOf(0)
    /\ hThrown = "none"

\* a step of the statement taken after the interrupt was signalled
StepAfterInterrupt == pc = "loop" /\ pc' = "loop" /\ interrupted

(***************************************************************************)
(* C26: when the engine's interrupt is signalled from another thread while *)
(* a materialization call is in progress (between steps, or while the call *)
(* sleeps between lock retries), the next cursor step returns an error     *)
(* outcome and the call ends as failed after that one step, with the       *)
(* statement reset: no further step, no retry.                             *)
(***************************************************************************)
C26_InterruptEndsCall ==
    /\ [][StepAfterInterrupt =>
            /\ lastOutcome' = "SQLITE_INTERRUPT"
            /\ lastOutcome # "SQLITE_INTERRUPT"
            /\ gotException'
            /\ exception' = "engine error"
            /\ UNCHANGED <<retryCount, totalRows, addedRows, window>>]_vars
    /\ [][(pc = "loop" /\ lastOutcome = "SQLITE_INTERRUPT") =>
            /\ pc' = "returned"
            /\ resetCalled'
            /\ stmtState' = "idle"
            /\ exception' = "engine error"]_vars
    /\ []((pc = "returned" /\ lastOutcome = "SQLITE_INTERRUPT") =>
            /\ exception = "engine error"
            /\ resetCalled
            /\ stmtState = "idle")

\* the interrupt arrived while the call slept between lock retries, after a
\* row had been stored
C26_Witness ==
    /\ pc = "returned"
    /\ interrupted
    /\ lastOutcome = "SQLITE_INTERRUPT"
    /\ streak >= 2
    /\ addedRows >= 1
    /\ exception = "engine error"
    /\ resetCalled

\* slot c of window row k holds what the cursor reported for column c of
\* the row it was copied from
ReadsBack(k, c) ==
    LET slot == window.rows[k][c] IN
    /\ slot.src = startPos + k - 1
    /\ slot.src < Len(rows)
    /\ slot.type = rows[slot.src + 1][c].type
    /\ GetFieldValue(slot) = rows[slot.src + 1][c]

(***************************************************************************)
(* C27: every column value copyRow writes into the window (Integer, Float, *)
(* Text, Blob or Null), read back from the same row slot and column,       *)
(* equals the value the cursor reported, zero-length Text and zero-length  *)
(* Blob included; each column is written with the packer of its type tag.  *)
(***************************************************************************)
C27_RoundTrip ==
    pc # "entry" =>
        \A k \in 1..NumRows(window) : \A c \in 1..NumColumns : ReadsBack(k, c)

\* a zero-length blob and a zero-length text stored, and after them a text
\* with an embedded zero byte and a negative integer
C27_Witness ==
    /\ pc = "returned"
    /\ NumRows(window) = 2
    /\ rows[window.rows[1][1].src + 1] = RowEmpty
    /\ window.rows[1][1] = [type |-> SQLITE_BLOB, val |-> <<>>, src |-> startPos]
    /\ window.rows[1][2] = [type |-> SQLITE_TEXT, val |-> <<0>>, src |-> startPos]
    /\ rows[window.rows[2][1].src + 1] = RowMixed
    /\ exception = "none"

\* the window is being marked full by this step
MarkedFull == ~windowFull /\ windowFull'

(***************************************************************************)
(* C30 as stated: at every test of the loop condition, while the window is *)
(* not marked full and totalRows >= startPos, startPos + addedRows equals  *)
(* totalRows; when the window is marked full, totalRows equals             *)
(* startPos + addedRows + 1; and addedRows <= totalRows always.            *)
(***************************************************************************)
C30_AsStated ==
    /\ [](pc = "loop" =>
            /\ (~windowFull /\ totalRows >= startPos) =>
                  startPos + addedRows = totalRows
            /\ addedRows <= totalRows)
    /\ [][MarkedFull => totalRows' = startPos' + addedRows' + 1]_vars

(***************************************************************************)
(* C30: at every test of the loop condition, while the window is not       *)
(* marked full, totalRows >= startPos and the latest row did not fail with *)
(* an unknown column type, startPos + addedRows equals totalRows; after a  *)
(* row that failed with an unknown column type, and when the window is     *)
(* marked full, totalRows equals startPos + addedRows + 1 (the row is      *)
(* counted as seen but not stored); and addedRows <= totalRows always.     *)
(***************************************************************************)
C30_LoopInvariant ==
    /\ [](pc = "loop" =>
            /\ (~windowFull /\ totalRows >= startPos /\ lastCpr # CPR_ERROR) =>
                  startPos + addedRows = totalRows
            /\ lastCpr = CPR_ERROR =>
                  /\ totalRows = startPos + addedRows + 1
                  /\ ~windowFull
                  /\ gotException
            /\ addedRows <= totalRows)
    /\ [][MarkedFull => totalRows' = startPos' + addedRows' + 1]_vars

\* the window has just been marked full with rows stored from a start
\* position beyond the first row
C30_Witness ==
    /\ pc = "loop"
    /\ windowFull
    /\ lastCpr = CPR_FULL
    /\ startPos >= 1
    /\ addedRows >= 1
    /\ totalRows = startPos + addedRows + 1

(***************************************************************************)
(* C31: between loop iterations of nativeExecuteForCursorWindow the number *)
(* of rows allocated in the window equals addedRows, so the row slot that  *)
(* copyRow writes to (addedRows) is the row it has just allocated; after   *)
(* successful encodes, failed encodes (Full or Error) and overflow         *)
(* recovery alike.                                                         *)
(***************************************************************************)
C31_SlotIsAllocatedRow ==
    /\ [](pc = "loop" => NumRows(window) = addedRows)
    /\ [][(pc = "loop" /\ pc' = "loop" /\ encodes' >= 1) =>
            /\ NumRows(window') = addedRows'
            /\ lastCpr' = CPR_OK =>
                  \A c \in 1..NumColumns :
                      window'.rows[addedRows'][c].src = stmtPos]_vars

\* overflow recovery has just stored the row in the emptied window, after an
\* error-free run of stored rows
C31_Witness ==
    /\ pc = "loop"
    /\ restarted
    /\ firstCpr = CPR_FULL
    /\ lastCpr = CPR_OK
    /\ addedRows = 1
    /\ NumRows(window) = 1
    /\ startPos >= 1

\* the lock-timeout error is being raised by this step
TimeoutRaised == exception # "retrycount exceeded" /\ exception' = "retrycount exceeded"

(***************************************************************************)
(* C32: in every reachable state of nativeExecuteForCursorWindow           *)
(* 0 <= retryCount <= 51; the call sleeps at most 51 times within one      *)
(* streak of consecutive Busy/Locked outcomes, and the lock-timeout error  *)
(* is raised only in a state where retryCount is 51.                       *)
(***************************************************************************)
C32_RetryCountRange ==
    /\ [](/\ retryCount \in 0..(RETRY_LIMIT + 1)
          /\ lastOutcome \in LockOutcomes =>
                IF exception = "retrycount exceeded"
                THEN retryCount = RETRY_LIMIT + 1 /\ streak = RETRY_LIMIT + 2
                ELSE retryCount = streak)
    /\ [][TimeoutRaised =>
            /\ retryCount = RETRY_LIMIT + 1
            /\ retryCount' = retryCount
            /\ lastOutcome' \in LockOutcomes]_vars

\* the 52nd Busy/Locked outcome in a row has raised the timeout, after a row
\* had been stored
C32_Witness ==
    /\ pc = "loop"
    /\ exception = "retrycount exceeded"
    /\ retryCount = RETRY_LIMIT + 1
    /\ streak = RETRY_LIMIT + 2
    /\ totalRows >= 1

(***************************************************************************)
(* C33: during nativeExecuteForCursorWindow startPos never decreases and   *)
(* changes only through overflow recovery; immediately after every         *)
(* recovery startPos <= requiredPos.  Hence a call that returns from the   *)
(* loop returns the requested startPos when that is greater than           *)
(* requiredPos, and otherwise a windowStartRowIndex between the requested  *)
(* startPos and requiredPos inclusive.                                     *)
(***************************************************************************)
C33_StartPosMonotone ==
    /\ [][/\ startPos' >= startPos
          /\ startPos' # startPos =>
                /\ restarted'
                /\ startPos' = startPos + addedRows
                /\ startPos' <= requiredPos]_vars
    /\ [](LoopReturned =>
            /\ result[1] = startPos
            /\ IF startPosArg > requiredPos
               THEN result[1] = startPosArg
               ELSE startPosArg <= result[1] /\ result[1] <= requiredPos)

\* recovery moved the window start up to requiredPos itself
C33_Witness ==
    /\ LoopReturned
    /\ startPosArg < requiredPos
    /\ result[1] = requiredPos
    /\ addedRows >= 1

(***************************************************************************)
(* C33 as stated: every call, however it returns, returns the requested    *)
(* startPos when that is greater than requiredPos, and otherwise a         *)
(* windowStartRowIndex between the requested startPos and requiredPos.     *)
(***************************************************************************)
C33_AsStated ==
    Returned =>
        IF startPosArg > requiredPos
        THEN result[1] = startPosArg
        ELSE startPosArg <= result[1] /\ result[1] <= requiredPos

\* startPos and totalRows as the claim takes them: not negative
InPackRange == startPos \in 0..(Pow2(IntBits - 1) - 1) /\ totalRows \in 0..(Pow2(IntBits - 1) - 1)

(***************************************************************************)
(* C34: the value nativeExecuteForCursorWindow returns is                  *)
(* (startPos << 32) | totalRows: for all startPos and totalRows from 0 up  *)
(* to the largest int, its high half decodes to the final startPos and its *)
(* low half to totalRows, neither disturbing the other.  The same packed   *)
(* value is returned when the loop ended with an error; only a failure to  *)
(* clear or configure the window returns 0.                                *)
(***************************************************************************)
C34_PackedResult ==
    Returned =>
        IF fault # "none"
        THEN result = 0 /\ exception # "none" /\ ~resetCalled
        ELSE /\ result = PackResult(startPos, totalRows)
             /\ InPackRange =>
                   /\ HighWord(result) = startPos
                   /\ LowWord(result) = totalRows
                   /\ result = 0 <=> (startPos = 0 /\ totalRows = 0)

\* the largest startPos and the largest totalRows, returned with an error
\* pending
C34_Witness ==
    /\ Returned
    /\ fault = "none"
    /\ gotException
    /\ startPos = Pow2(IntBits - 1) - 1
    /\ totalRows = Pow2(IntBits - 1) - 1
    /\ HighWord(result) = startPos
    /\ LowWord(result) = totalRows

\* the helpers that expect at most one row with exactly one column
OneRowHelpers ==
    {"nativeExecuteForLongAndReset", "nativeExecuteForDoubleAndReset",
     "nativeExecuteForStringOrNullAndReset", "nativeExecuteForBlobOrNullAndReset"}

(***************************************************************************)
(* C35: in the one-row helpers the error 'Got more than one row' is raised *)
(* only when the second step actually yields a row, and in the zero-row    *)
(* helpers the error 'Expected 0 rows' is raised only when the step        *)
(* actually yields a row; a Busy, Locked or other engine error on that     *)
(* step is not reported with the message of a protocol violation.          *)
(***************************************************************************)
C35_ProtocolErrorsOnlyOnRows ==
    HelperReturned =>
        /\ (hName \in OneRowHelpers /\ hThrown = "Got more than one row") =>
              StepResult(2) = "SQLITE_ROW"
        /\ (hName \in ZeroRowHelpers /\ hThrown = "Expected 0 rows") =>
              FirstStep = "SQLITE_ROW"

\* the nativeOpen call has failed: one of the engine calls it makes failed,
\* or the database is read-only although read/write was asked for
OpenFailed ==
    \/ oOpenErr # "SQLITE_OK"
    \/ oImpl = "SQLiteConnection" /\ oCollationErr
    \/ oReadWrite /\ oReadOnly
    \/ oTimeoutErr

(***************************************************************************)
(* C36: whenever nativeOpen fails (the engine open fails, the database     *)
(* turns out read-only although read/write was requested, or the busy      *)
(* timeout cannot be set) it raises an error, returns 0 and leaves no open *)
(* connection handle behind: the handle produced by the open attempt has   *)
(* been closed on every failure path.                                      *)
(***************************************************************************)
C36_FailedOpenClosesHandle ==
    (oPc = "returned" /\ OpenFailed) =>
        /\ oThrown # "none"
        /\ oResult = 0
        /\ oHandle # "open"

\* the cases of the inner switches whose label is the error code thrown
ListedAs ==
    {<<i, j>> \in (1..Len(Switch)) \X (1..MaxExtension) :
        /\ j <= Len(Switch[i].inner)
        /\ ExtendedCode(Switch[i].primary, Switch[i].inner[j].n) = tErrcode}

(***************************************************************************)
(* C37: in throw_sqlite3_exception(env, errcode, sqlite3Message, message), *)
(* for every extended error code the switch lists, the additional info put *)
(* into the message is the text of that code's own case (ISDIR for         *)
(* SQLITE_CANTOPEN_ISDIR, CORRUPT_VTAB for SQLITE_CORRUPT_VTAB, READ for   *)
(* SQLITE_IOERR_READ, TIMEOUT for SQLITE_BUSY_TIMEOUT); an unlisted        *)
(* extended code gives empty additional info.                              *)
(***************************************************************************)
C37_InfoNamesTheCode ==
    tPc = "thrown" =>
        /\ \A ij \in ListedAs : tInfo = Switch[ij[1]].inner[ij[2]].info
        /\ (ListedAs = {} /\ tErrcode % 256 # 26) => tInfo = ""

\* the primary codes the outer switch has a case for
ListedPrimaries == {Switch[i].primary : i \in 1..Len(Switch)}

(***************************************************************************)
(* C38: the exception class throw_sqlite3_exception chooses depends only   *)
(* on the primary error code (errcode & 0xff): codes with the same low 8   *)
(* bits map to the same class, Busy maps to the database-locked class,     *)
(* Locked to the table-locked class, Interrupt to the interrupted class,   *)
(* and an unlisted primary code or a class that cannot be found maps to    *)
(* the generic SQLiteException.                                            *)
(***************************************************************************)
C38_ClassByPrimaryCode ==
    tPc = "thrown" =>
        /\ \A n \in 0..MaxExtension : \A m \in BOOLEAN :
              throw_sqlite3_exceptionOp(ExtendedCode(tErrcode % 256, n),
                                        tClassFound, m, m).class = tClass
        /\ (tClassFound /\ tErrcode % 256 = 5) =>
              tClass = "android/database/sqlite/SQLiteDatabaseLockedException"
        /\ (tClassFound /\ tErrcode % 256 = 6) =>
              tClass = "android/database/sqlite/SQLiteTableLockedException"
        /\ (tClassFound /\ tErrcode % 256 = 9) =>
              tClass = "com/darkyen/sqlitelite/SQLiteInterruptedException"
        /\ (~tClassFound \/ tErrcode % 256 \notin ListedPrimaries) =>
              tClass = GenericClass

\* SQLITE_BUSY_TIMEOUT thrown as the database-locked class
C38_Witness ==
    /\ tPc = "thrown"
    /\ tErrcode = ExtendedCode(5, 3)
    /\ tClassFound
    /\ tInfo = "TIMEOUT"
    /\ tClass = "android/database/sqlite/SQLiteDatabaseLockedException"

====
